---- MODULE Spec2Model ----
(***************************************************************************)
(* Parallel weather analysis: the reduction core of the four programs      *)
(*   serial            src/unnamed/part_000                                *)
(*   distributed (MPI) src/unnamed/part_001                                *)
(*   shared memory     src/parallel_omp/weather_analysis_omp.c             *)
(*   GPU               src/cuda/weather_analysis_cuda.cu                   *)
(*                                                                         *)
(* Temperatures and precipitation amounts are small integers, so sums are  *)
(* exact and float/double conversion is exact on them; only the sentinels  *)
(* FLT_MAX / DBL_MAX are affected by the float <-> double conversions.     *)
(***************************************************************************)
EXTENDS Integers, Sequences, FiniteSets, TLC

VARIABLES
    backend,          \* which program this behaviour is a run of
    \* ---- GPU program (weather_analysis_cuda.cu)
    gfile,            \* the work item handed to process_city_file_cuda
    h_records,        \* parsed records of the work item (host buffer)
    num_records,      \* number of parsed records
    num_blocks,       \* gridDim.x of the launch
    hpc,              \* host position in process_city_file_cuda
    d_out,            \* the device-side global accumulator (d_temp_sum, ...)
    sh,               \* sh[b][tid]: the __shared__ arrays of block b
    kpc,              \* kpc[b][tid]: position of unit tid of block b
    kidx,             \* kidx[b][tid]: the unit's local idx
    ks,               \* ks[b]: the stride s of the block-level reduction
    reg,              \* reg[b]: value unit 0 of block b read from *temp_min_out / *temp_max_out
    sh0,              \* sh0[b]: the shared arrays of block b at its first __syncthreads (history)
    sh_writers,       \* sh_writers[b][slot]: units that wrote slot during local accumulation (history)
    taken,            \* taken[<<idx, b, tid>>]: number of times unit tid of block b read records[idx] (history)
    \* ---- the enumerated work items (shared-memory and distributed programs)
    files,            \* files[i]: the work item file_paths[i] names; city_names[i] is i
    num_files,
    heap,             \* the bytes malloc hands out: the content of a fresh result buffer
    oom,              \* the allocation of a result buffer that fails in this run, if any
    listing,          \* listing[r][i]: the file that entry i of file_paths / city_names of process r names
    \* ---- distributed program (part_001)
    size,             \* number of processes
    dist_mode,
    comm_mode,
    ppc,              \* ppc[r]: position of process r in main
    my_file_indices,  \* my_file_indices[r]
    my_count,         \* my_count[r]
    local_results,    \* local_results[r]
    pi,               \* pi[r]: the loop index i of the local processing loop
    all_counts,       \* rank 0: receive buffer of MPI_Gather
    displacements,    \* rank 0
    total_cities,     \* rank 0
    all_results,      \* rank 0: receive buffer of the result gather
    inflight,         \* sources whose contribution to the result gather is posted, not yet placed
    arrival,          \* sources in the order their contributions were placed (history)
    \* ---- shared-memory program (weather_analysis_omp.c)
    num_threads,
    schedule_type,
    chunk_size,
    local_cities,     \* the malloc'ed buffer of per-item results
    opc,              \* position of main
    omp_next,         \* the runtime's shared iteration counter (dynamic, guided)
    tpc,              \* tpc[t]: "idle" (needs a chunk), "work", "done" (at the barrier)
    tcur,             \* tcur[t] .. tend[t] - 1: the rest of thread t's current chunk
    tend,
    tround,           \* tround[t]: number of chunks thread t took (static)
    slot_writers,     \* slot_writers[i]: threads that wrote local_cities[i] (history)
    processed,        \* processed[i]: number of executions of iteration i (history)
    \* ---- serial program (part_000)
    max_cities,
    spc,              \* position of main: in the readdir loop, in the record loop, ...
    sfile,            \* index of the directory entry readdir returned last
    sline,            \* number of data lines process_city_file has read
    \* ---- results
    cities,           \* the global result table
    city_count,
    \* ---- print_results
    printed,          \* print_results has run
    total_records,
    global_temp_sum,
    global_temp_count

gpuVars == <<gfile, h_records, num_records, num_blocks, hpc, d_out, sh, kpc, kidx, ks,
             reg, sh0, sh_writers, taken>>
dirVars == <<files, num_files, heap, oom, listing>>
mpiVars == <<size, dist_mode, comm_mode, ppc, my_file_indices, my_count, local_results, pi,
             all_counts, displacements, total_cities, all_results, inflight, arrival>>
ompVars == <<num_threads, schedule_type, chunk_size, local_cities, opc,
             omp_next, tpc, tcur, tend, tround, slot_writers, processed>>
serVars == <<max_cities, spc, sfile, sline>>
outVars == <<cities, city_count>>
repVars == <<printed, total_records, global_temp_sum, global_temp_count>>
vars == <<backend, gpuVars, dirVars, mpiVars, ompVars, serVars, outVars, repVars>>

\* what the actions of one program leave alone
notGpu == <<backend, dirVars, mpiVars, ompVars, serVars, repVars>>
notOmp == <<backend, gpuVars, mpiVars, serVars>>
notMpi == <<backend, gpuVars, ompVars, serVars>>
notSer == <<backend, gpuVars, mpiVars, ompVars>>

-----------------------------------------------------------------------------
(* Bounds of the model *)

\* log2 of the modelled group size (the program's BLOCK_SIZE is 256 = 2^8)
LogBlockSize == 2
\* modelled cap on the number of groups (the program's cap is 128)
MaxBlocks == 2
\* largest number of records of a work item
MaxRecords == 5
\* largest number of records of a work item in the runs of the grid-stride loop
MaxGridRecords == 9
\* largest number of enumerated work items
MaxFiles == 3
\* largest number of worker threads
MaxThreads == 2
\* largest chunk_size
MaxChunk == 2
\* largest number of processes of a distributed run
MaxProcs == 3
\* largest work-item count and process count the two distributions are planned for
MaxPlanFiles == 7
MaxPlanProcs == 4
\* largest number of sources and largest per-source count of a gathered count vector
\* records a unit accumulates before the block-level reduction
MaxUnitRecords == 1
MaxSources == 4
MaxCount == 5

-----------------------------------------------------------------------------
(* Program constants *)

RECURSIVE Pow2(_)
Pow2(k) == IF k = 0 THEN 1 ELSE 2 * Pow2(k - 1)

BLOCK_SIZE == Pow2(LogBlockSize)

\* sentinels of <float.h>, ordered as in C: every temperature < FLT_MAX < DBL_MAX < +inf
FLT_MAX == 1000
DBL_MAX == 2000
F_INF == 3000

\* capacities of the static tables cities[] and file_paths[] / city_names[],
\* scaled down so that a directory can hold more .csv files than the tables
MAX_CITIES == 2
MAX_FILES == 2

\* capacity of h_records, scaled down: above every file of the kernel runs,
\* below the longest file of the runs of the parsing loop
MAX_RECORDS_PER_FILE == 10

Months == 0 .. 11

Min2(a, b) == IF b < a THEN b ELSE a
Max2(a, b) == IF b > a THEN b ELSE a

\* (float)x for a double x: the temperatures are exactly representable, a
\* magnitude above FLT_MAX rounds to infinity
ToFloat(x) == IF x > FLT_MAX THEN F_INF ELSE IF x < -FLT_MAX THEN -F_INF ELSE x

-----------------------------------------------------------------------------
(* Records: the fields of one CSV line the programs read.                  *)
(*   has_temp / has_precip: field 4 / field 7 is non-empty                 *)
(*   date_ok: the date field has at least 7 characters                     *)
(*   mm: atoi of characters 5..6 of the date                               *)

Rec(ht, t, hp, p, ok, mm) ==
    [has_temp |-> ht, temp |-> t, has_precip |-> hp, precip |-> p,
     date_ok |-> ok, mm |-> mm]

\* sample lines: both fields, one field, none; months in range, 13, 0, short date
Pool == << Rec(TRUE, 20, TRUE, 3, TRUE, 1),
           Rec(TRUE, -5, FALSE, 0, TRUE, 12),
           Rec(FALSE, 0, TRUE, 5, TRUE, 6),
           Rec(TRUE, 30, TRUE, 1, TRUE, 13),
           Rec(TRUE, 25, FALSE, 0, FALSE, 0),
           Rec(FALSE, 0, FALSE, 0, TRUE, 4),
           Rec(TRUE, 7, TRUE, 2, TRUE, 0) >>

\* the n lines of a file whose first line is line off of the pool
Lines(off, n) == [i \in 1 .. n |-> Pool[((off + i - 1) % Len(Pool)) + 1]]

\* get_month of the serial, shared-memory and GPU programs: the raw value
get_month(rec) == IF ~rec.date_ok THEN -1 ELSE rec.mm - 1

-----------------------------------------------------------------------------
(* CityStats and the serial fold (LocalReducer) *)

ZeroMonths == [m \in Months |-> 0]

\* the accumulator as process_city_file initialises it
InitStats(name) ==
    [name |-> name, temp_sum |-> 0, temp_min |-> DBL_MAX, temp_max |-> -DBL_MAX,
     precip_sum |-> 0, temp_count |-> 0, precip_count |-> 0, record_count |-> 0,
     monthly_temp_sum |-> ZeroMonths, monthly_temp_count |-> ZeroMonths]

\* arr[m] += v done twice
BucketAddTwice(arr, m, v) ==
    [k \in DOMAIN arr \cup {m} |->
        (IF k \in DOMAIN arr THEN arr[k] ELSE 0) + (IF k = m THEN 2 * v ELSE 0)]

\* arr[m] += v; an m outside the array is a store to the memory around it
BucketAdd(arr, m, v) ==
    [k \in DOMAIN arr \cup {m} |->
        (IF k \in DOMAIN arr THEN arr[k] ELSE 0) + (IF k = m THEN v ELSE 0)]

\* a test of the month that lets 12 through
MonthNotNegative(month) == month >= 0 /\ month <= 12

\* the test that guards the bucket arrays: month >= 0 && month < 12
MonthInRange(month) == month >= 0 /\ month < 12

\* the temperature of a record counted twice
FoldTempCountsTwice(city, rec, month) ==
    IF rec.has_temp
    THEN [city EXCEPT
            !.temp_sum = @ + rec.temp,
            !.temp_count = @ + 2,
            !.temp_min = IF rec.temp < @ THEN rec.temp ELSE @,
            !.temp_max = IF rec.temp > @ THEN rec.temp ELSE @,
            !.monthly_temp_sum =
                IF MonthInRange(month) THEN BucketAdd(@, month, rec.temp) ELSE @,
            !.monthly_temp_count =
                IF MonthInRange(month) THEN BucketAdd(@, month, 1) ELSE @]
    ELSE city

\* one iteration of the while (fgets) loop of process_city_file
FoldTemp(city, rec, month) ==
    IF rec.has_temp
    THEN [city EXCEPT
            !.temp_sum = @ + rec.temp,
            !.temp_count = @ + 1,
            !.temp_min = IF rec.temp < @ THEN rec.temp ELSE @,
            !.temp_max = IF rec.temp > @ THEN rec.temp ELSE @,
            !.monthly_temp_sum =
                IF MonthInRange(month) THEN BucketAdd(@, month, rec.temp) ELSE @,
            !.monthly_temp_count =
                IF MonthInRange(month) THEN BucketAdd(@, month, 1) ELSE @]
    ELSE city

\* the precipitation counted only for a record that has a temperature
FoldPrecipNeedsTemp(city, rec) ==
    IF rec.has_precip /\ rec.has_temp
    THEN [city EXCEPT !.precip_sum = @ + rec.precip, !.precip_count = @ + 1]
    ELSE city

\* lines 128-134 of the loop body
FoldPrecip(city, rec) ==
    IF rec.has_precip
    THEN [city EXCEPT !.precip_sum = @ + rec.precip, !.precip_count = @ + 1]
    ELSE city

\* the loop body with record_count advanced only by records with a temperature
FoldRecordCountsValid(city, rec) ==
    FoldPrecip(FoldTemp([city EXCEPT !.record_count = IF rec.has_temp THEN @ + 1 ELSE @],
                        rec, get_month(rec)), rec)

FoldRecord(city, rec) ==
    FoldPrecip(FoldTemp([city EXCEPT !.record_count = @ + 1], rec, get_month(rec)), rec)

RECURSIVE FoldFrom(_, _, _)
FoldFrom(city, recs, i) ==
    IF i > Len(recs) THEN city ELSE FoldFrom(FoldRecord(city, recs[i]), recs, i + 1)

\* the serial fold of a record sequence in original order
SerialFold(name, recs) == FoldFrom(InitStats(name), recs, 1)

-----------------------------------------------------------------------------
(* Work items: a file that may fail to open, may lack the header line, and  *)
(* otherwise holds n data lines                                            *)

File(ok, hdr, off, n) == [open_ok |-> ok, header |-> hdr, off |-> off, n |-> n]

FileLines(f) == IF f.open_ok /\ f.header THEN Lines(f.off, f.n) ELSE << >>

\* the files a run may meet: unreadable, empty, header only, header and lines
FileChoices(maxn) ==
    {File(FALSE, FALSE, 0, 0), File(TRUE, FALSE, 0, 0)} \cup
    {File(TRUE, TRUE, off, n) : off \in 0 .. Len(Pool) - 1, n \in 0 .. maxn}

-----------------------------------------------------------------------------
(* GPU program: host side parsing (process_city_file_cuda)                 *)

\* one parsed WeatherRecord; avg_temp / precipitation keep the buffer's old
\* bytes when the field is empty and are never read then
ParseRecord(rec) ==
    [avg_temp |-> IF rec.has_temp THEN ToFloat(rec.temp) ELSE 0,
     precipitation |-> IF rec.has_precip THEN ToFloat(rec.precip) ELSE 0,
     month |-> get_month(rec),
     valid_temp |-> rec.has_temp,
     valid_precip |-> rec.has_precip]

\* the parsing loop without the bound on num_records
ParseFileUncapped(f) == [i \in 1 .. Len(FileLines(f)) |-> ParseRecord(FileLines(f)[i])]

\* line 257: the loop ends at the end of the file or when h_records is full
ParseFile(f) ==
    [i \in 1 .. Min2(Len(FileLines(f)), MAX_RECORDS_PER_FILE) |-> ParseRecord(FileLines(f)[i])]

\* the identity the host copies to the device before the launch
DeviceInit ==
    [temp_sum |-> 0, temp_min |-> DBL_MAX, temp_max |-> -DBL_MAX, temp_count |-> 0,
     precip_sum |-> 0, precip_count |-> 0,
     monthly_temp_sum |-> ZeroMonths, monthly_temp_count |-> ZeroMonths]

\* num_blocks of the launch
NumBlocks(n) ==
    IF (n + BLOCK_SIZE - 1) \div BLOCK_SIZE > MaxBlocks
    THEN MaxBlocks
    ELSE (n + BLOCK_SIZE - 1) \div BLOCK_SIZE

Blocks == 0 .. MaxBlocks - 1
Tids == 0 .. BLOCK_SIZE - 1
Launched == 0 .. num_blocks - 1

-----------------------------------------------------------------------------
(* GPU kernel process_weather_records: per-unit accumulators               *)

\* what unit tid stores in sh_*[tid] at the start of the kernel
ShInit ==
    [temp_sum |-> 0, temp_min |-> FLT_MAX, temp_max |-> -FLT_MAX, temp_count |-> 0,
     precip_sum |-> 0, precip_count |-> 0,
     monthly_temp |-> ZeroMonths, monthly_count |-> ZeroMonths]

\* __shared__ memory before any unit stored to it
ShStale ==
    [temp_sum |-> 99, temp_min |-> 99, temp_max |-> 99, temp_count |-> 99,
     precip_sum |-> 99, precip_count |-> 99,
     monthly_temp |-> [m \in Months |-> 99], monthly_count |-> [m \in Months |-> 99]]

\* body of the while (idx < num_records) loop for one record
ShAccumulate(a, rec) ==
    LET t == IF rec.valid_temp
             THEN [a EXCEPT
                     !.temp_sum = @ + rec.avg_temp,
                     !.temp_min = Min2(@, rec.avg_temp),
                     !.temp_max = Max2(@, rec.avg_temp),
                     !.temp_count = @ + 1,
                     !.monthly_temp =
                         IF MonthInRange(rec.month)
                         THEN BucketAdd(@, rec.month, rec.avg_temp) ELSE @,
                     !.monthly_count =
                         IF MonthInRange(rec.month)
                         THEN BucketAdd(@, rec.month, 1) ELSE @]
             ELSE a
    IN  IF rec.valid_precip
        THEN [t EXCEPT !.precip_sum = @ + rec.precipitation, !.precip_count = @ + 1]
        ELSE t

\* ShCombine with the maximum taken against the partner's minimum
ShCombineCopyPaste(a, b) ==
    [temp_sum |-> a.temp_sum + b.temp_sum,
     temp_min |-> Min2(a.temp_min, b.temp_min),
     temp_max |-> Max2(a.temp_max, b.temp_min),
     temp_count |-> a.temp_count + b.temp_count,
     precip_sum |-> a.precip_sum + b.precip_sum,
     precip_count |-> a.precip_count + b.precip_count,
     monthly_temp |-> [m \in Months |-> a.monthly_temp[m] + b.monthly_temp[m]],
     monthly_count |-> [m \in Months |-> a.monthly_count[m] + b.monthly_count[m]]]

\* ShCombine with the partner's maximum assigned, not combined
ShCombineAssignsMax(a, b) ==
    [temp_sum |-> a.temp_sum + b.temp_sum,
     temp_min |-> Min2(a.temp_min, b.temp_min),
     temp_max |-> b.temp_max,
     temp_count |-> a.temp_count + b.temp_count,
     precip_sum |-> a.precip_sum + b.precip_sum,
     precip_count |-> a.precip_count + b.precip_count,
     monthly_temp |-> [m \in Months |-> a.monthly_temp[m] + b.monthly_temp[m]],
     monthly_count |-> [m \in Months |-> a.monthly_count[m] + b.monthly_count[m]]]

\* ShCombine with the minimum of the left operand kept
ShCombineLeftMin(a, b) ==
    [temp_sum |-> a.temp_sum + b.temp_sum,
     temp_min |-> a.temp_min,
     temp_max |-> Max2(a.temp_max, b.temp_max),
     temp_count |-> a.temp_count + b.temp_count,
     precip_sum |-> a.precip_sum + b.precip_sum,
     precip_count |-> a.precip_count + b.precip_count,
     monthly_temp |-> [m \in Months |-> a.monthly_temp[m] + b.monthly_temp[m]],
     monthly_count |-> [m \in Months |-> a.monthly_count[m] + b.monthly_count[m]]]

\* ShCombine that keeps the left operand's counts
ShCombineKeepsCounts(a, b) ==
    [temp_sum |-> a.temp_sum + b.temp_sum,
     temp_min |-> Min2(a.temp_min, b.temp_min),
     temp_max |-> Max2(a.temp_max, b.temp_max),
     temp_count |-> a.temp_count,
     precip_sum |-> a.precip_sum + b.precip_sum,
     precip_count |-> a.precip_count,
     monthly_temp |-> [m \in Months |-> a.monthly_temp[m] + b.monthly_temp[m]],
     monthly_count |-> [m \in Months |-> a.monthly_count[m]]]

\* one step of the block-level reduction: sh[tid] combined with sh[tid + s]
ShCombine(a, b) ==
    [temp_sum |-> a.temp_sum + b.temp_sum,
     temp_min |-> Min2(a.temp_min, b.temp_min),
     temp_max |-> Max2(a.temp_max, b.temp_max),
     temp_count |-> a.temp_count + b.temp_count,
     precip_sum |-> a.precip_sum + b.precip_sum,
     precip_count |-> a.precip_count + b.precip_count,
     monthly_temp |-> [m \in Months |-> a.monthly_temp[m] + b.monthly_temp[m]],
     monthly_count |-> [m \in Months |-> a.monthly_count[m] + b.monthly_count[m]]]

\* the slot of the shared arrays a unit writes during local accumulation
ShSlot(tid) == tid

\* idx += blockDim.x
GridStrideOneBlock == BLOCK_SIZE

\* idx += blockDim.x * gridDim.x
GridStride == BLOCK_SIZE * num_blocks

\* a store of val that drops what the address held
atomicAddOverwrites(old, val) == val

\* atomicAdd(address, val)
atomicAdd(old, val) == old + val

\* fminf / fmaxf applied to the double read from the global location
GlobalMin(read, mine) == Min2(ToFloat(read), mine)
GlobalMax(read, mine) == Max2(ToFloat(read), mine)

-----------------------------------------------------------------------------
(* Values of the variables of the programs a behaviour is not a run of      *)

\* every malloc of a result buffer succeeds
NoOom == [site |-> "none", rank |-> -1]

\* before print_results nothing is reported
NotPrinted ==
    /\ printed = FALSE
    /\ total_records = 0
    /\ global_temp_sum = 0
    /\ global_temp_count = 0

DirIdle ==
    /\ files = << >>
    /\ num_files = 0
    /\ heap = 0
    /\ oom = NoOom
    /\ listing = << >>

SerIdle ==
    /\ max_cities = 0
    /\ spc = "off"
    /\ sfile = 0
    /\ sline = 0

MpiIdle ==
    /\ size = 0
    /\ dist_mode = "none"
    /\ comm_mode = "none"
    /\ ppc = << >>
    /\ my_file_indices = << >>
    /\ my_count = << >>
    /\ local_results = << >>
    /\ pi = << >>
    /\ all_counts = << >>
    /\ displacements = << >>
    /\ total_cities = 0
    /\ all_results = << >>
    /\ inflight = {}
    /\ arrival = << >>

OmpIdle ==
    /\ num_threads = 0
    /\ schedule_type = "none"
    /\ chunk_size = 0
    /\ local_cities = << >>
    /\ opc = "off"
    /\ omp_next = 0
    /\ tpc = << >>
    /\ tcur = << >>
    /\ tend = << >>
    /\ tround = << >>
    /\ slot_writers = << >>
    /\ processed = << >>

GpuIdle ==
    /\ gfile = File(FALSE, FALSE, 0, 0)
    /\ h_records = << >>
    /\ num_records = 0
    /\ num_blocks = 0
    /\ hpc = "off"
    /\ d_out = 0
    /\ sh = << >>
    /\ kpc = << >>
    /\ kidx = << >>
    /\ ks = << >>
    /\ reg = << >>
    /\ sh0 = << >>
    /\ sh_writers = << >>
    /\ taken = << >>

-----------------------------------------------------------------------------
(* The result table: static storage, zero-initialised by the loader         *)

ZeroStats ==
    [name |-> -1, temp_sum |-> 0, temp_min |-> 0, temp_max |-> 0,
     precip_sum |-> 0, temp_count |-> 0, precip_count |-> 0, record_count |-> 0,
     monthly_temp_sum |-> ZeroMonths, monthly_temp_count |-> ZeroMonths]

\* freshly cudaMalloc'ed device memory
DeviceStale ==
    [temp_sum |-> 99, temp_min |-> 99, temp_max |-> 99, temp_count |-> 99,
     precip_sum |-> 99, precip_count |-> 99,
     monthly_temp_sum |-> [m \in Months |-> 99],
     monthly_temp_count |-> [m \in Months |-> 99]]

\* first stride of the block-level reduction: blockDim.x / 2
ReduceStart == BLOCK_SIZE \div 2

InitGpuWith(choices) ==
    /\ backend = "gpu"
    /\ gfile \in choices
    /\ h_records = << >>
    /\ num_records = 0
    /\ num_blocks = 0
    /\ hpc = "start"
    /\ d_out = DeviceStale
    /\ sh = [b \in Blocks |-> [t \in Tids |-> ShStale]]
    /\ kpc = [b \in Blocks |-> [t \in Tids |-> "off"]]
    /\ kidx = [b \in Blocks |-> [t \in Tids |-> 0]]
    /\ ks = [b \in Blocks |-> -1]
    /\ reg = [b \in Blocks |-> 0]
    /\ sh0 = [b \in Blocks |-> [t \in Tids |-> ShStale]]
    /\ sh_writers = [b \in Blocks |-> [t \in Tids |-> {}]]
    /\ taken = << >>
    /\ DirIdle /\ MpiIdle /\ OmpIdle /\ SerIdle
    /\ cities = [i \in 0 .. 0 |-> ZeroStats]
    /\ city_count = 0
    /\ NotPrinted

InitGpu == InitGpuWith(FileChoices(MaxRecords))

\* fopen, header, the parsing loop; returns without a slot when the file
\* cannot be opened, has no header line or has no record
HostParse ==
    /\ backend = "gpu" /\ hpc = "start"
    /\ h_records' = ParseFile(gfile)
    /\ num_records' = Len(ParseFile(gfile))
    /\ hpc' = IF Len(ParseFile(gfile)) = 0 THEN "returned" ELSE "parsed"
    /\ UNCHANGED notGpu
    /\ UNCHANGED <<gfile, num_blocks, d_out, sh, kpc, kidx, ks, reg, sh0,
                   sh_writers, taken, outVars>>

\* cudaMalloc, cudaMemcpy of the initial values, the kernel launch
HostLaunch ==
    /\ backend = "gpu" /\ hpc = "parsed"
    /\ d_out' = DeviceInit
    /\ num_blocks' = NumBlocks(num_records)
    /\ kpc' = [b \in Blocks |-> [t \in Tids |->
                 IF b < NumBlocks(num_records) THEN "init" ELSE "off"]]
    /\ hpc' = "running"
    /\ UNCHANGED notGpu
    /\ UNCHANGED <<gfile, h_records, num_records, sh, kidx, ks, reg, sh0,
                   sh_writers, taken, outVars>>

\* a unit that leaves the kernel when it has no record left
LoopExitReturns(idx) == IF idx < num_records THEN "acc" ELSE "done"

\* while (idx < num_records): the loop body, or on to the __syncthreads of line 193
LoopExit(idx) == IF idx < num_records THEN "acc" ELSE "sync"

\* lines 153-167: idx and the unit's own slots of the shared arrays
KInit(b, t) ==
    /\ backend = "gpu" /\ kpc[b][t] = "init"
    /\ sh' = [sh EXCEPT ![b][ShSlot(t)] = ShInit]
    /\ sh_writers' = [sh_writers EXCEPT ![b][ShSlot(t)] = @ \cup {t}]
    /\ kidx' = [kidx EXCEPT ![b][t] = b * BLOCK_SIZE + t]
    /\ taken' = taken
    /\ kpc' = [kpc EXCEPT ![b][t] = LoopExit(b * BLOCK_SIZE + t)]
    /\ UNCHANGED notGpu
    /\ UNCHANGED <<gfile, h_records, num_records, num_blocks, hpc, d_out, ks,
                   reg, sh0, outVars>>

\* lines 170-191: one iteration of the grid-stride loop
KAccumulate(b, t) ==
    /\ backend = "gpu" /\ kpc[b][t] = "acc"
    /\ sh' = [sh EXCEPT ![b][ShSlot(t)] = ShAccumulate(@, h_records[kidx[b][t] + 1])]
    /\ sh_writers' = [sh_writers EXCEPT ![b][ShSlot(t)] = @ \cup {t}]
    /\ kidx' = [kidx EXCEPT ![b][t] = @ + GridStride]
    /\ taken' = LET e == <<kidx[b][t], b, t>>
                IN  [x \in DOMAIN taken \cup {e} |->
                        (IF x \in DOMAIN taken THEN taken[x] ELSE 0) + (IF x = e THEN 1 ELSE 0)]
    /\ kpc' = [kpc EXCEPT ![b][t] = LoopExit(kidx[b][t] + GridStride)]
    /\ UNCHANGED notGpu
    /\ UNCHANGED <<gfile, h_records, num_records, num_blocks, hpc, d_out, ks,
                   reg, sh0, outVars>>

\* __syncthreads(): released when every unit of the block has arrived; the
\* units then test the loop condition of the block-level reduction
SyncThreads(b) ==
    /\ backend = "gpu" /\ b \in Launched
    /\ \A t \in Tids : kpc[b][t] = "sync"
    /\ LET s == IF ks[b] = -1 THEN ReduceStart ELSE ks[b] \div 2
       IN  /\ ks' = [ks EXCEPT ![b] = s]
           /\ kpc' = [kpc EXCEPT ![b] = [t \in Tids |->
                        IF s > 0 THEN "red" ELSE IF t = 0 THEN "m_sum" ELSE "done"]]
    /\ sh0' = IF ks[b] = -1 THEN [sh0 EXCEPT ![b] = sh[b]] ELSE sh0
    /\ UNCHANGED notGpu
    /\ UNCHANGED <<gfile, h_records, num_records, num_blocks, hpc, d_out, sh,
                   kidx, reg, sh_writers, taken, outVars>>

\* the neighbouring slot
PartnerNeighbour(tid, s) == tid + 1

\* the slot unit tid reads besides its own at stride s: tid + s
Partner(tid, s) == tid + s

\* lines 197-209: one step of the block-level reduction by unit t
KReduce(b, t) ==
    /\ backend = "gpu" /\ kpc[b][t] = "red"
    /\ sh' = IF t < ks[b]
             THEN [sh EXCEPT ![b][t] = ShCombine(sh[b][t], sh[b][Partner(t, ks[b])])]
             ELSE sh
    /\ kpc' = [kpc EXCEPT ![b][t] = "sync"]
    /\ UNCHANGED notGpu
    /\ UNCHANGED <<gfile, h_records, num_records, num_blocks, hpc, d_out, kidx,
                   ks, reg, sh0, sh_writers, taken, outVars>>

KGoto(b, pc) == kpc' = [kpc EXCEPT ![b][0] = pc]

\* line 215
MergeSum(b) ==
    /\ backend = "gpu" /\ kpc[b][0] = "m_sum"
    /\ d_out' = [d_out EXCEPT !.temp_sum = atomicAdd(@, sh[b][0].temp_sum)]
    /\ KGoto(b, "m_min_rd")
    /\ UNCHANGED notGpu
    /\ UNCHANGED <<gfile, h_records, num_records, num_blocks, hpc, sh, kidx, ks,
                   reg, sh0, sh_writers, taken, outVars>>

\* line 216: the load of *temp_min_out ...
MergeMinRead(b) ==
    /\ backend = "gpu" /\ kpc[b][0] = "m_min_rd"
    /\ reg' = [reg EXCEPT ![b] = d_out.temp_min]
    /\ KGoto(b, "m_min_wr")
    /\ UNCHANGED notGpu
    /\ UNCHANGED <<gfile, h_records, num_records, num_blocks, hpc, d_out, sh,
                   kidx, ks, sh0, sh_writers, taken, outVars>>

\* ... and the store of fminf(loaded, sh_temp_min[0]): a plain store
MergeMinWrite(b) ==
    /\ backend = "gpu" /\ kpc[b][0] = "m_min_wr"
    /\ d_out' = [d_out EXCEPT !.temp_min = GlobalMin(reg[b], sh[b][0].temp_min)]
    /\ KGoto(b, "m_max_rd")
    /\ UNCHANGED notGpu
    /\ UNCHANGED <<gfile, h_records, num_records, num_blocks, hpc, sh, kidx, ks,
                   reg, sh0, sh_writers, taken, outVars>>

\* line 217: the load of *temp_max_out ...
MergeMaxRead(b) ==
    /\ backend = "gpu" /\ kpc[b][0] = "m_max_rd"
    /\ reg' = [reg EXCEPT ![b] = d_out.temp_max]
    /\ KGoto(b, "m_max_wr")
    /\ UNCHANGED notGpu
    /\ UNCHANGED <<gfile, h_records, num_records, num_blocks, hpc, d_out, sh,
                   kidx, ks, sh0, sh_writers, taken, outVars>>

\* ... and the store of fmaxf(loaded, sh_temp_max[0])
MergeMaxWrite(b) ==
    /\ backend = "gpu" /\ kpc[b][0] = "m_max_wr"
    /\ d_out' = [d_out EXCEPT !.temp_max = GlobalMax(reg[b], sh[b][0].temp_max)]
    /\ KGoto(b, "m_count")
    /\ UNCHANGED notGpu
    /\ UNCHANGED <<gfile, h_records, num_records, num_blocks, hpc, sh, kidx, ks,
                   reg, sh0, sh_writers, taken, outVars>>

\* lines 218-220: the atomic adds of the three remaining scalars
MergeCounts(b) ==
    /\ backend = "gpu" /\ kpc[b][0] = "m_count"
    /\ d_out' = [d_out EXCEPT
                   !.temp_count = atomicAdd(@, sh[b][0].temp_count),
                   !.precip_sum = atomicAdd(@, sh[b][0].precip_sum),
                   !.precip_count = atomicAdd(@, sh[b][0].precip_count)]
    /\ KGoto(b, "m_monthly")
    /\ UNCHANGED notGpu
    /\ UNCHANGED <<gfile, h_records, num_records, num_blocks, hpc, sh, kidx, ks,
                   reg, sh0, sh_writers, taken, outVars>>

\* lines 222-225: the atomic adds of the monthly sums and counts
MergeMonthly(b) ==
    /\ backend = "gpu" /\ kpc[b][0] = "m_monthly"
    /\ d_out' = [d_out EXCEPT
                   !.monthly_temp_sum =
                       [m \in Months |-> atomicAdd(@[m], sh[b][0].monthly_temp[m])],
                   !.monthly_temp_count =
                       [m \in Months |-> atomicAdd(@[m], sh[b][0].monthly_count[m])]]
    /\ KGoto(b, "done")
    /\ UNCHANGED notGpu
    /\ UNCHANGED <<gfile, h_records, num_records, num_blocks, hpc, sh, kidx, ks,
                   reg, sh0, sh_writers, taken, outVars>>

\* the synchronisation taken to wait for the first block only
KernelDoneFirstBlock == \A t \in Tids : kpc[0][t] = "done"

KernelDone == \A b \in Launched : \A t \in Tids : kpc[b][t] = "done"

\* cudaDeviceSynchronize returns once every block has finished
HostSynchronize ==
    /\ backend = "gpu" /\ hpc = "running" /\ KernelDone
    /\ hpc' = "synced"
    /\ UNCHANGED notGpu
    /\ UNCHANGED <<gfile, h_records, num_records, num_blocks, d_out, sh, kpc,
                   kidx, ks, reg, sh0, sh_writers, taken, outVars>>

\* lines 339-367: the copies back into cities[city_count], then city_count++
HostCopyBack ==
    /\ backend = "gpu" /\ hpc = "synced"
    /\ cities' = [cities EXCEPT ![city_count] =
                    [name |-> 0,
                     temp_sum |-> d_out.temp_sum, temp_min |-> d_out.temp_min,
                     temp_max |-> d_out.temp_max, precip_sum |-> d_out.precip_sum,
                     temp_count |-> d_out.temp_count, precip_count |-> d_out.precip_count,
                     record_count |-> num_records,
                     monthly_temp_sum |-> d_out.monthly_temp_sum,
                     monthly_temp_count |-> d_out.monthly_temp_count]]
    /\ city_count' = city_count + 1
    /\ hpc' = "committed"
    /\ UNCHANGED notGpu
    /\ UNCHANGED <<gfile, h_records, num_records, num_blocks, d_out, sh, kpc,
                   kidx, ks, reg, sh0, sh_writers, taken>>

GpuNext ==
    \/ HostParse
    \/ HostLaunch
    \/ \E b \in Blocks, t \in Tids : KInit(b, t)
    \/ \E b \in Blocks, t \in Tids : KAccumulate(b, t)
    \/ \E b \in Blocks : SyncThreads(b)
    \/ \E b \in Blocks, t \in Tids : KReduce(b, t)
    \/ \E b \in Blocks : MergeSum(b)
    \/ \E b \in Blocks : MergeMinRead(b)
    \/ \E b \in Blocks : MergeMinWrite(b)
    \/ \E b \in Blocks : MergeMaxRead(b)
    \/ \E b \in Blocks : MergeMaxWrite(b)
    \/ \E b \in Blocks : MergeCounts(b)
    \/ \E b \in Blocks : MergeMonthly(b)
    \/ HostSynchronize
    \/ HostCopyBack

SpecGpu == InitGpu /\ [][GpuNext]_vars

\* the device and the host go on while a step is possible: a resident unit
\* that can run is run, and a host call that can return returns
SpecGpuLive ==
    /\ InitGpuWith({File(TRUE, TRUE, 0, n) : n \in 0 .. MaxRecords})
    /\ [][GpuNext]_vars
    /\ WF_vars(GpuNext)

\* the runs over a file that fills h_records exactly or has one line more
InitCap ==
    InitGpuWith({File(TRUE, TRUE, 0, n) :
                     n \in MAX_RECORDS_PER_FILE .. MAX_RECORDS_PER_FILE + 1})

SpecCap == InitCap /\ [][GpuNext]_vars

\* the kernel over files long enough for the cap on the number of groups to
\* bind, so that units take a second record
SpecGrid ==
    InitGpuWith({File(TRUE, TRUE, 0, n) : n \in 1 .. MaxGridRecords}) /\ [][GpuNext]_vars

-----------------------------------------------------------------------------
(* The enumerated directory and fresh heap memory                          *)

\* number of data lines of the i-th enumerated file
DirLines(i) == (i + 1) % 3

NoFault == [at |-> -1, kind |-> "none"]

\* at most one file of the directory cannot be opened or lacks its header
Faults(n) == {NoFault} \cup {[at |-> i, kind |-> k] : i \in 0 .. n - 1, k \in {"unreadable", "noheader"}}

Directory(n, fault) ==
    [i \in 0 .. n - 1 |->
        IF fault.at = i
        THEN File(fault.kind # "unreadable", FALSE, 0, 0)
        ELSE File(TRUE, TRUE, i % Len(Pool), DirLines(i))]

\* bytes of an earlier allocation
StaleStats ==
    [name |-> -2, temp_sum |-> 70, temp_min |-> 3, temp_max |-> 40,
     precip_sum |-> 9, temp_count |-> 4, precip_count |-> 2, record_count |-> 5,
     monthly_temp_sum |-> [m \in Months |-> 7], monthly_temp_count |-> [m \in Months |-> 1]]

\* what malloc may hand out: zero pages or bytes of an earlier allocation
HeapChoices == {ZeroStats, StaleStats}

\* the heap content matters only when some file leaves its slot unwritten
HeapFor(fault) == IF fault.kind = "unreadable" THEN HeapChoices ELSE {ZeroStats}

-----------------------------------------------------------------------------
(* Shared-memory program: process_city_file and the parallel loops of main  *)

\* process_city_file(filepath, city): *city is left alone when fopen fails
process_city_file_omp(f, city) ==
    IF ~f.open_ok THEN city
    ELSE IF ~f.header THEN InitStats(city.name)
    ELSE FoldFrom(InitStats(city.name), FileLines(f), 1)

\* the loop body: strncpy of the name, then process_city_file
OmpBody(i, city) == process_city_file_omp(files[i], [city EXCEPT !.name = i])

\* the slot taken modulo the number of threads
OmpSlotWrapped(i) == i % num_threads

\* the slot of local_cities iteration i writes
OmpSlot(i) == i

Threads == 0 .. num_threads - 1

\* the round-robin deal started one chunk late
StaticLoSkipsFirst(t, k) == (k * num_threads + t + 1) * chunk_size

\* schedule(static, chunk_size): chunks dealt round-robin in thread order;
\* first iteration of the k-th chunk of thread t
StaticLo(t, k) == (k * num_threads + t) * chunk_size

\* the counter advanced by one iteration too few
DynamicTakeShort(lo) == Min2(lo + chunk_size, num_files) - 1

\* schedule(dynamic, chunk_size): the counter after a chunk starting at lo was taken
DynamicTake(lo) == Min2(lo + chunk_size, num_files)

\* schedule(guided, chunk_size): chunks proportional to the unassigned
\* iterations per thread, never below chunk_size
GuidedSize(lo) ==
    Max2(chunk_size, (num_files - lo + num_threads - 1) \div num_threads)

GuidedTake(lo) == Min2(lo + GuidedSize(lo), num_files)

\* line 281 returns NULL
LocalCitiesNull == oom.site = "local_cities"

\* the runs of main in which malloc fails (failing) or does not; a failing run
\* has a non-empty directory of readable files
InitOmpWith(failing) ==
    /\ backend = "omp"
    /\ num_files \in (IF failing THEN 1 ELSE 0) .. MaxFiles
    /\ \E fault \in (IF failing THEN {NoFault} ELSE Faults(num_files)) :
         /\ files = Directory(num_files, fault)
         /\ heap \in HeapFor(fault)
    /\ oom = IF failing THEN [site |-> "local_cities", rank |-> -1] ELSE NoOom
    /\ listing = << >>
    /\ num_threads \in 1 .. MaxThreads
    /\ schedule_type \in {"static", "dynamic", "guided"}
    /\ chunk_size \in 1 .. MaxChunk
    /\ local_cities = IF failing THEN << >> ELSE [i \in 0 .. num_files - 1 |-> heap]
    /\ opc = "parallel"
    /\ omp_next = 0
    /\ tpc = [t \in Threads |-> "idle"]
    /\ tcur = [t \in Threads |-> 0]
    /\ tend = [t \in Threads |-> 0]
    /\ tround = [t \in Threads |-> 0]
    /\ slot_writers = [i \in 0 .. num_files - 1 |-> {}]
    /\ processed = [i \in 0 .. num_files - 1 |-> 0]
    /\ cities = [i \in 0 .. num_files - 1 |-> ZeroStats]
    /\ city_count = 0
    /\ NotPrinted
    /\ GpuIdle /\ MpiIdle /\ SerIdle

InitOmp == InitOmpWith(FALSE)

\* thread t is given the chunk lo .. hi - 1, or goes to the barrier that ends
\* the loop when no iteration is left for it
OmpAssign(t, lo, hi) ==
    /\ tpc' = [tpc EXCEPT ![t] = IF lo < num_files THEN "work" ELSE "done"]
    /\ tcur' = [tcur EXCEPT ![t] = lo]
    /\ tend' = [tend EXCEPT ![t] = hi]

\* lines 285-289
OmpStaticGrab(t) ==
    /\ backend = "omp" /\ opc = "parallel" /\ schedule_type = "static"
    /\ tpc[t] = "idle"
    /\ OmpAssign(t, StaticLo(t, tround[t]),
                 Min2(StaticLo(t, tround[t]) + chunk_size, num_files))
    /\ tround' = [tround EXCEPT ![t] = @ + 1]
    /\ UNCHANGED notOmp
    /\ UNCHANGED <<dirVars, repVars, num_threads, schedule_type, chunk_size, local_cities, opc,
                   omp_next, slot_writers, processed, outVars>>

\* lines 291-295
OmpGuidedGrab(t) ==
    /\ backend = "omp" /\ opc = "parallel" /\ schedule_type = "guided"
    /\ tpc[t] = "idle"
    /\ OmpAssign(t, omp_next, GuidedTake(omp_next))
    /\ omp_next' = GuidedTake(omp_next)
    /\ UNCHANGED notOmp
    /\ UNCHANGED <<dirVars, repVars, num_threads, schedule_type, chunk_size, local_cities, opc,
                   tround, slot_writers, processed, outVars>>

\* lines 297-301: the chunk is taken from the shared counter in one atomic step
OmpDynamicGrab(t) ==
    /\ backend = "omp" /\ opc = "parallel" /\ schedule_type = "dynamic"
    /\ tpc[t] = "idle"
    /\ OmpAssign(t, omp_next, DynamicTake(omp_next))
    /\ omp_next' = DynamicTake(omp_next)
    /\ UNCHANGED notOmp
    /\ UNCHANGED <<dirVars, repVars, num_threads, schedule_type, chunk_size, local_cities, opc,
                   tround, slot_writers, processed, outVars>>

\* one iteration of the loop body by the thread that holds it
OmpIterate(t) ==
    /\ backend = "omp" /\ opc = "parallel" /\ tpc[t] = "work"
    /\ ~LocalCitiesNull
    /\ LET i == tcur[t]
       IN  /\ local_cities' = [local_cities EXCEPT ![OmpSlot(i)] = OmpBody(i, @)]
           /\ slot_writers' = [slot_writers EXCEPT ![OmpSlot(i)] = @ \cup {t}]
           /\ processed' = [processed EXCEPT ![i] = @ + 1]
    /\ tcur' = [tcur EXCEPT ![t] = @ + 1]
    /\ tpc' = [tpc EXCEPT ![t] = IF tcur[t] + 1 < tend[t] THEN "work" ELSE "idle"]
    /\ UNCHANGED notOmp
    /\ UNCHANGED <<dirVars, repVars, num_threads, schedule_type, chunk_size, opc, omp_next, tend,
                   tround, outVars>>

\* a barrier that lets the program on when one thread has arrived
OneThreadArrived == \E t \in Threads : tpc[t] = "done"

\* every thread of the team has run out of iterations and reached the barrier
AllThreadsArrived == \A t \in Threads : tpc[t] = "done"

\* the implicit barrier at the end of the parallel loop
OmpBarrier ==
    /\ backend = "omp" /\ opc = "parallel"
    /\ AllThreadsArrived
    /\ opc' = "copy"
    /\ UNCHANGED notOmp
    /\ UNCHANGED <<dirVars, repVars, num_threads, schedule_type, chunk_size, local_cities,
                   omp_next, tpc, tcur, tend, tround, slot_writers, processed, outVars>>

\* lines 304-310: the copy into cities, city_count, free
OmpCopy ==
    /\ backend = "omp" /\ opc = "copy"
    /\ ~LocalCitiesNull
    /\ cities' = [i \in 0 .. num_files - 1 |-> local_cities[i]]
    /\ city_count' = num_files
    /\ opc' = "print"
    /\ UNCHANGED notOmp
    /\ UNCHANGED <<dirVars, repVars, num_threads, schedule_type, chunk_size, local_cities,
                   omp_next, tpc, tcur, tend, tround, slot_writers, processed>>

OmpNext ==
    \/ \E t \in Threads : OmpStaticGrab(t)
    \/ \E t \in Threads : OmpGuidedGrab(t)
    \/ \E t \in Threads : OmpDynamicGrab(t)
    \/ \E t \in Threads : OmpIterate(t)
    \/ OmpBarrier
    \/ OmpCopy

SpecOmp == InitOmp /\ [][OmpNext]_vars

-----------------------------------------------------------------------------
(* print_results of part_000 and part_001: two in-place sorts of the result  *)
(* table and the overall statistics                                         *)

\* avg_a > avg_b, where avg is temp_sum / temp_count, or -999 for a city
\* without a temperature; the quotients are compared as fractions
AvgAbove(a, b) ==
    LET na == IF a.temp_count > 0 THEN a.temp_sum ELSE -999
        da == IF a.temp_count > 0 THEN a.temp_count ELSE 1
        nb == IF b.temp_count > 0 THEN b.temp_sum ELSE -999
        db == IF b.temp_count > 0 THEN b.temp_count ELSE 1
    IN  na * db > nb * da

\* the test of the swap of the sort by key
Above(key, a, b) ==
    IF key = "avg" THEN AvgAbove(a, b) ELSE a.precip_sum > b.precip_sum

\* the exchange that copies entry j over entry i and drops entry i
RECURSIVE SortFromOverwrites(_, _, _, _, _)
SortFromOverwrites(c, n, i, j, key) ==
    IF i >= n - 1 THEN c
    ELSE IF j >= n THEN SortFromOverwrites(c, n, i + 1, i + 2, key)
    ELSE SortFromOverwrites(IF Above(key, c[j], c[i])
                            THEN [c EXCEPT ![i] = c[j]]
                            ELSE c,
                            n, i, j + 1, key)

\* the nested loops for (i ...) for (j = i + 1 ...) if (above) swap, from (i, j) on
RECURSIVE SortFrom(_, _, _, _, _)
SortFrom(c, n, i, j, key) ==
    IF i >= n - 1 THEN c
    ELSE IF j >= n THEN SortFrom(c, n, i + 1, i + 2, key)
    ELSE SortFrom(IF Above(key, c[j], c[i])
                  THEN [c EXCEPT ![i] = c[j], ![j] = c[i]]
                  ELSE c,
                  n, i, j + 1, key)

\* descending by key
SortBy(c, n, key) == SortFrom(c, n, 0, 1, key)

\* the loop for (i = 0; i < n; i++) total += c[i].field, for the three fields
RECURSIVE TotalRecords(_, _)
TotalRecords(c, n) == IF n <= 0 THEN 0 ELSE TotalRecords(c, n - 1) + c[n - 1].record_count

RECURSIVE GlobalTempSum(_, _)
GlobalTempSum(c, n) == IF n <= 0 THEN 0 ELSE GlobalTempSum(c, n - 1) + c[n - 1].temp_sum

RECURSIVE GlobalTempCount(_, _)
GlobalTempCount(c, n) == IF n <= 0 THEN 0 ELSE GlobalTempCount(c, n - 1) + c[n - 1].temp_count

\* the serial program calls print_results after the readdir loop; rank 0 of
\* the distributed program calls it on the gathered table (all_results keeps
\* the gathered order here; cities is the table print_results sorts)
print_results ==
    /\ ~printed
    /\ \/ backend = "serial" /\ spc = "print"
       \/ backend = "mpi" /\ ppc[0] = "done"
    /\ LET hottest == SortBy(cities, city_count, "avg")
           wettest == SortBy(hottest, city_count, "precip")
       IN  /\ cities' = wettest
           /\ total_records' = TotalRecords(wettest, city_count)
           /\ global_temp_sum' = GlobalTempSum(wettest, city_count)
           /\ global_temp_count' = GlobalTempCount(wettest, city_count)
    /\ printed' = TRUE
    /\ UNCHANGED <<backend, gpuVars, dirVars, mpiVars, ompVars, serVars, city_count>>

-----------------------------------------------------------------------------
(* Serial program: main and process_city_file of part_000                   *)

\* the directory of a serial run: the enumerated directory with its first
\* file replaced by one of n lines starting at line off of the pool
SerialDirectory(n, fault, off, len) ==
    [i \in 0 .. n - 1 |->
        IF i = 0 /\ fault.at # 0 THEN File(TRUE, TRUE, off, len)
        ELSE Directory(n, fault)[i]]

InitSerial ==
    /\ backend = "serial"
    /\ num_files \in 0 .. MaxFiles
    /\ \E fault \in Faults(num_files) :
       \E off \in 0 .. Len(Pool) - 1 : \E len \in 0 .. MaxRecords :
         files = SerialDirectory(num_files, fault, off, len)
    /\ heap = ZeroStats
    /\ oom = NoOom
    /\ listing = << >>
    /\ max_cities \in 0 .. MaxFiles
    /\ spc = "readdir"
    /\ sfile = -1
    /\ sline = 0
    /\ cities = [i \in 0 .. num_files - 1 |-> ZeroStats]
    /\ city_count = 0
    /\ NotPrinted
    /\ GpuIdle /\ MpiIdle /\ OmpIdle

\* line 257 finds a next entry and room in the table; lines 73-98: fopen,
\* the initialisation of cities[city_count], the header line
SerialOpen ==
    /\ backend = "serial" /\ spc = "readdir"
    /\ sfile + 1 < num_files /\ city_count < max_cities
    /\ sfile' = sfile + 1
    /\ sline' = 0
    /\ cities' = IF files[sfile + 1].open_ok
                 THEN [cities EXCEPT ![city_count] = InitStats(sfile + 1)]
                 ELSE cities
    /\ spc' = IF files[sfile + 1].open_ok /\ files[sfile + 1].header
              THEN "lines" ELSE "readdir"
    /\ UNCHANGED notSer
    /\ UNCHANGED <<dirVars, repVars, max_cities, city_count>>

\* lines 100-135: fgets returns a line, one iteration of the record loop
SerialRecord ==
    /\ backend = "serial" /\ spc = "lines"
    /\ sline < Len(FileLines(files[sfile]))
    /\ cities' = [cities EXCEPT ![city_count] =
                    FoldRecord(@, FileLines(files[sfile])[sline + 1])]
    /\ sline' = sline + 1
    /\ UNCHANGED notSer
    /\ UNCHANGED <<dirVars, repVars, max_cities, spc, sfile, city_count>>

\* lines 100, 137-138: fgets returns NULL, fclose, city_count++
SerialClose ==
    /\ backend = "serial" /\ spc = "lines"
    /\ sline >= Len(FileLines(files[sfile]))
    /\ city_count' = city_count + 1
    /\ spc' = "readdir"
    /\ UNCHANGED notSer
    /\ UNCHANGED <<dirVars, repVars, max_cities, sfile, sline, cities>>

\* line 257 ends the loop: no entry is left or the table holds max_cities
SerialEndOfDirectory ==
    /\ backend = "serial" /\ spc = "readdir"
    /\ ~(sfile + 1 < num_files /\ city_count < max_cities)
    /\ spc' = "print"
    /\ UNCHANGED notSer
    /\ UNCHANGED <<dirVars, repVars, max_cities, sfile, sline, outVars>>

SerialNext ==
    \/ SerialOpen
    \/ SerialRecord
    \/ SerialClose
    \/ SerialEndOfDirectory
    \/ print_results

SpecSerial == InitSerial /\ [][SerialNext]_vars

\* the two programs that fold the records of a file into one accumulator
\* record by record: the serial fold and the record-level reduction
InitFold == InitSerial \/ InitGpu


-----------------------------------------------------------------------------
(* Distributed program: local fold, distribution, offsets                   *)

\* the clamp with the upper bound one month too low
get_month_mpiClampsDecember(rec) ==
    IF ~rec.date_ok THEN -1
    ELSE IF rec.mm - 1 < 0 \/ rec.mm - 1 > 10 THEN -1 ELSE rec.mm - 1

\* get_month of the distributed program: out-of-range months become -1
get_month_mpi(rec) ==
    IF ~rec.date_ok THEN -1
    ELSE IF rec.mm - 1 < 0 \/ rec.mm - 1 > 11 THEN -1 ELSE rec.mm - 1

FoldRecordMpi(city, rec) ==
    FoldPrecip(FoldTemp([city EXCEPT !.record_count = @ + 1], rec, get_month_mpi(rec)), rec)

RECURSIVE FoldFromMpi(_, _, _)
FoldFromMpi(city, recs, i) ==
    IF i > Len(recs) THEN city ELSE FoldFromMpi(FoldRecordMpi(city, recs[i]), recs, i + 1)

\* process_city_file(filepath, city): *city is left alone when fopen fails
process_city_file_mpi(f, city) ==
    IF ~f.open_ok THEN city
    ELSE IF ~f.header THEN InitStats(city.name)
    ELSE FoldFromMpi(InitStats(city.name), FileLines(f), 1)

\* files_per_proc of the block distribution
FilesPerProc(n, w) == (n + w - 1) \div w

\* the block distribution with the chunk size rounded down
BlockIndicesFloor(rank, n, w) ==
    LET my_start == rank * (n \div w)
        my_end == Min2(my_start + (n \div w), n)
    IN  [k \in 1 .. Max2(my_end - my_start, 0) |-> my_start + k - 1]

\* the block distribution without the clamp of my_end to num_files
BlockIndicesUnclamped(rank, n, w) ==
    LET my_start == rank * FilesPerProc(n, w)
        my_end == my_start + FilesPerProc(n, w)
    IN  [k \in 1 .. Max2(my_end - my_start, 0) |-> my_start + k - 1]

\* lines 317-323: my_file_indices of rank under the block distribution
BlockIndices(rank, n, w) ==
    LET my_start == rank * FilesPerProc(n, w)
        my_end == Min2(my_start + FilesPerProc(n, w), n)
    IN  [k \in 1 .. Max2(my_end - my_start, 0) |-> my_start + k - 1]

\* the cyclic distribution with a stride one short of the process count
CyclicIndicesShortStride(rank, n, w) ==
    [k \in 1 .. (IF rank < n THEN (n - 1 - rank) \div w + 1 ELSE 0) |->
        rank + (k - 1) * Max2(w - 1, 1)]

\* lines 312-314: my_file_indices of rank under the cyclic distribution
CyclicIndices(rank, n, w) ==
    [k \in 1 .. (IF rank < n THEN (n - 1 - rank) \div w + 1 ELSE 0) |-> rank + (k - 1) * w]

MyFileIndices(mode, rank, n, w) ==
    IF mode = "cyclic" THEN CyclicIndices(rank, n, w) ELSE BlockIndices(rank, n, w)

Ranks == 0 .. size - 1

\* the total taken to be the root's own count
TotalCitiesOfRoot(counts, w) == counts[0]

\* lines 383-385
RECURSIVE TotalCities(_, _)
TotalCities(counts, w) == IF w = 0 THEN 0 ELSE TotalCities(counts, w - 1) + counts[w - 1]

\* the offsets with each source's own count included
RECURSIVE DisplInclusive(_, _)
DisplInclusive(counts, i) ==
    IF i = 0 THEN counts[0] ELSE DisplInclusive(counts, i - 1) + counts[i]

\* lines 392-395: displacements[i]
RECURSIVE Displ(_, _)
Displ(counts, i) == IF i = 0 THEN 0 ELSE Displ(counts, i - 1) + counts[i - 1]

\* number of items of the sources placed so far
RECURSIVE PlacedSoFar(_)
PlacedSoFar(arr) ==
    IF Len(arr) = 0 THEN 0 ELSE all_counts[arr[Len(arr)]] + PlacedSoFar(SubSeq(arr, 1, Len(arr) - 1))

\* placement in order of arrival
GatherPosArrival(s, j) == PlacedSoFar(arrival) + j

\* the gather with displacements: item j of source s goes to displs[s] + j
GatherPos(s, j) == displacements[s] + j

\* the mallocs of result buffers that can fail: local_results at some rank
\* (line 329), all_counts / displacements (lines 349-350) and all_results
\* (line 386) at rank 0
MpiOoms ==
    {[site |-> "local_results", rank |-> r] : r \in Ranks}
        \cup {[site |-> "gather_arrays", rank |-> 0], [site |-> "all_results", rank |-> 0]}

\* line 329 returns NULL at rank r
LocalResultsNull(r) == oom.site = "local_results" /\ oom.rank = r

\* every process obtained the entries in the order of the directory
SameOrder(n, w) == [r \in 0 .. w - 1 |-> [i \in 0 .. n - 1 |-> i]]

\* the orders in which readdir may hand the n entries to one process
Orders(n) == {o \in [0 .. n - 1 -> 0 .. n - 1] : \A i, j \in 0 .. n - 1 : o[i] = o[j] => i = j}

\* the runs of main in which one malloc fails (failing) or none does, and in
\* which every process obtains the directory order or any order (anyorder); a
\* failing run has a non-empty directory of readable files
InitMpiEnum(failing, anyorder) ==
    /\ backend = "mpi"
    /\ num_files \in (IF failing THEN 1 ELSE 0) .. MaxFiles
    /\ \E fault \in (IF failing THEN {NoFault} ELSE Faults(num_files)) :
         /\ files = Directory(num_files, fault)
         /\ heap \in HeapFor(fault)
    /\ size \in 1 .. MaxProcs
    /\ listing \in (IF anyorder THEN [0 .. size - 1 -> Orders(num_files)]
                               ELSE {SameOrder(num_files, size)})
    /\ oom \in (IF failing THEN MpiOoms ELSE {NoOom})
    /\ dist_mode \in {"block", "cyclic"}
    /\ comm_mode \in {"blocking", "nonblocking"}
    /\ ppc = [r \in Ranks |-> "plan"]
    /\ my_file_indices = [r \in Ranks |-> << >>]
    /\ my_count = [r \in Ranks |-> 0]
    /\ local_results = [r \in Ranks |-> << >>]
    /\ pi = [r \in Ranks |-> 0]
    /\ all_counts = [r \in Ranks |-> -1]
    /\ displacements = [r \in Ranks |-> -1]
    /\ total_cities = 0
    /\ all_results = << >>
    /\ inflight = {}
    /\ arrival = << >>
    /\ cities = << >>
    /\ city_count = 0
    /\ NotPrinted
    /\ GpuIdle /\ OmpIdle /\ SerIdle

\* the runs in which every process obtains the entries in the same order
InitMpiWith(failing) == InitMpiEnum(failing, FALSE)

InitMpi == InitMpiWith(FALSE)

\* a rank without work item that leaves out the two gathers
AfterPlanSkipsGathers(n) == IF n > 0 THEN "local" ELSE "done"

\* lines 336-357: for (i = 0; i < my_count; i++) ..., then MPI_Gather
AfterPlan(n) == IF n > 0 THEN "local" ELSE "gather"

\* lines 305-334: the rank's share of the indices and its result buffer
MpiPlan(r) ==
    /\ backend = "mpi" /\ ppc[r] = "plan"
    /\ LET mine == MyFileIndices(dist_mode, r, num_files, size)
       IN  /\ ~(LocalResultsNull(r) /\ Len(mine) > 0)
           /\ my_file_indices' = [my_file_indices EXCEPT ![r] = mine]
           /\ my_count' = [my_count EXCEPT ![r] = Len(mine)]
           /\ local_results' = [local_results EXCEPT ![r] = [j \in 0 .. Len(mine) - 1 |-> heap]]
           /\ ppc' = [ppc EXCEPT ![r] = AfterPlan(Len(mine))]
    /\ UNCHANGED notMpi
    /\ UNCHANGED <<dirVars, repVars, size, dist_mode, comm_mode, pi, all_counts, displacements,
                   total_cities, all_results, inflight, arrival, outVars>>

\* lines 336-340: one iteration of the local processing loop
MpiProcess(r) ==
    /\ backend = "mpi" /\ ppc[r] = "local"
    /\ LET file_idx == my_file_indices[r][pi[r] + 1]
           entry == listing[r][file_idx]
       IN  local_results' = [local_results EXCEPT ![r][pi[r]] =
               process_city_file_mpi(files[entry], [@ EXCEPT !.name = entry])]
    /\ pi' = [pi EXCEPT ![r] = @ + 1]
    /\ ppc' = [ppc EXCEPT ![r] = IF pi[r] + 1 < my_count[r] THEN "local" ELSE "gather"]
    /\ UNCHANGED notMpi
    /\ UNCHANGED <<dirVars, repVars, size, dist_mode, comm_mode, my_file_indices, my_count,
                   all_counts, displacements, total_cities, all_results, inflight, arrival,
                   outVars>>

\* line 357: the rank's contribution to MPI_Gather of the counts; the root
\* stays in the call until every contribution is in
MpiGatherCount(r) ==
    /\ backend = "mpi" /\ ppc[r] = "gather"
    /\ ~(r = 0 /\ oom.site = "gather_arrays")
    /\ all_counts' = [all_counts EXCEPT ![r] = my_count[r]]
    /\ ppc' = [ppc EXCEPT ![r] = IF r = 0 THEN "gather_root" ELSE "gatherv"]
    /\ UNCHANGED notMpi
    /\ UNCHANGED <<dirVars, repVars, size, dist_mode, comm_mode, my_file_indices, my_count,
                   local_results, pi, displacements, total_cities, all_results, inflight,
                   arrival, outVars>>

\* lines 382-396 at rank 0, once MPI_Gather has returned
MpiRootOffsets ==
    /\ backend = "mpi" /\ ppc[0] = "gather_root"
    /\ \A r \in Ranks : all_counts[r] >= 0
    /\ oom.site # "all_results"
    /\ total_cities' = TotalCities(all_counts, size)
    /\ all_results' = [k \in 0 .. TotalCities(all_counts, size) - 1 |-> heap]
    /\ displacements' = [i \in Ranks |-> Displ(all_counts, i)]
    /\ ppc' = [ppc EXCEPT ![0] = "gatherv"]
    /\ UNCHANGED notMpi
    /\ UNCHANGED <<dirVars, repVars, size, dist_mode, comm_mode, my_file_indices, my_count,
                   local_results, pi, all_counts, inflight, arrival, outVars>>

\* lines 407-409: MPI_Gatherv; a sender may return once its data is handed
\* over, the root returns when every contribution is placed
MpiGatherv(r) ==
    /\ backend = "mpi" /\ ppc[r] = "gatherv" /\ comm_mode # "nonblocking"
    /\ inflight' = inflight \cup {r}
    /\ ppc' = [ppc EXCEPT ![r] = IF r = 0 THEN "gatherv_root" ELSE "reduce"]
    /\ UNCHANGED notMpi
    /\ UNCHANGED <<dirVars, repVars, size, dist_mode, comm_mode, my_file_indices, my_count,
                   local_results, pi, all_counts, displacements, total_cities, all_results,
                   arrival, outVars>>

\* lines 400-403: MPI_Igatherv returns at once
MpiIgatherv(r) ==
    /\ backend = "mpi" /\ ppc[r] = "gatherv" /\ comm_mode = "nonblocking"
    /\ inflight' = inflight \cup {r}
    /\ ppc' = [ppc EXCEPT ![r] = "wait"]
    /\ UNCHANGED notMpi
    /\ UNCHANGED <<dirVars, repVars, size, dist_mode, comm_mode, my_file_indices, my_count,
                   local_results, pi, all_counts, displacements, total_cities, all_results,
                   arrival, outVars>>

\* the library places the contribution of source s in the root's receive
\* buffer, in whatever order the contributions arrive
MpiPlace(s) ==
    /\ backend = "mpi" /\ s \in inflight
    /\ ppc[0] \in {"gatherv_root", "wait"}
    /\ all_results' =
         [k \in DOMAIN all_results |->
            IF \E j \in 0 .. all_counts[s] - 1 : k = GatherPos(s, j)
            THEN local_results[s][CHOOSE j \in 0 .. all_counts[s] - 1 : k = GatherPos(s, j)]
            ELSE all_results[k]]
    /\ inflight' = inflight \ {s}
    /\ arrival' = Append(arrival, s)
    /\ UNCHANGED notMpi
    /\ UNCHANGED <<dirVars, repVars, size, dist_mode, comm_mode, ppc, my_file_indices, my_count,
                   local_results, pi, all_counts, displacements, total_cities, outVars>>

GatherComplete == Len(arrival) = size

\* the root's MPI_Gatherv returns
MpiGathervReturn ==
    /\ backend = "mpi" /\ ppc[0] = "gatherv_root" /\ GatherComplete
    /\ ppc' = [ppc EXCEPT ![0] = "reduce"]
    /\ UNCHANGED notMpi
    /\ UNCHANGED <<dirVars, repVars, size, dist_mode, comm_mode, my_file_indices, my_count,
                   local_results, pi, all_counts, displacements, total_cities, all_results,
                   inflight, arrival, outVars>>

\* a wait that returns whether or not the request has completed
WaitReturnsAtOnce(r) == TRUE

\* completion of the gather request of rank r: at a sender once its data is
\* handed over, at the root when every contribution is placed
RequestComplete(r) == r = 0 => GatherComplete

\* line 404: MPI_Wait returns when the request is complete
MpiWait(r) ==
    /\ backend = "mpi" /\ ppc[r] = "wait"
    /\ RequestComplete(r)
    /\ ppc' = [ppc EXCEPT ![r] = "reduce"]
    /\ UNCHANGED notMpi
    /\ UNCHANGED <<dirVars, repVars, size, dist_mode, comm_mode, my_file_indices, my_count,
                   local_results, pi, all_counts, displacements, total_cities, all_results,
                   inflight, arrival, outVars>>

\* lines 419-436: rank 0 hands all_results to print_results (which runs as the
\* step print_results); every rank frees its buffers and ends
MpiFinish(r) ==
    /\ backend = "mpi" /\ ppc[r] = "reduce"
    /\ ppc' = [ppc EXCEPT ![r] = "done"]
    /\ cities' = IF r = 0 THEN all_results ELSE cities
    /\ city_count' = IF r = 0 THEN total_cities ELSE city_count
    /\ UNCHANGED notMpi
    /\ UNCHANGED <<dirVars, repVars, size, dist_mode, comm_mode, my_file_indices, my_count,
                   local_results, pi, all_counts, displacements, total_cities, all_results,
                   inflight, arrival>>

MpiNext ==
    \/ \E r \in Ranks : MpiPlan(r)
    \/ \E r \in Ranks : MpiProcess(r)
    \/ \E r \in Ranks : MpiGatherCount(r)
    \/ MpiRootOffsets
    \/ \E r \in Ranks : MpiGatherv(r)
    \/ \E r \in Ranks : MpiIgatherv(r)
    \/ \E s \in Ranks : MpiPlace(s)
    \/ MpiGathervReturn
    \/ \E r \in Ranks : MpiWait(r)
    \/ \E r \in Ranks : MpiFinish(r)
    \/ print_results

SpecMpi == InitMpi /\ [][MpiNext]_vars

\* every process runs on, and the library completes what it can complete
InitMpiReadable ==
    InitMpi /\ \A i \in DOMAIN files : files[i].open_ok /\ files[i].header

SpecMpiLive == InitMpiReadable /\ [][MpiNext]_vars /\ WF_vars(MpiNext)

\* the runs over readable files in which each process obtains the entries in
\* an order of its own
InitEnum ==
    /\ InitMpiEnum(FALSE, TRUE)
    /\ \A i \in DOMAIN files : files[i].open_ok /\ files[i].header

SpecEnum == InitEnum /\ [][MpiNext]_vars

-----------------------------------------------------------------------------
(* The two distributions as functions of (rank, N, W)                       *)

InitPlan ==
    /\ backend = "plan"
    /\ num_files \in 0 .. MaxPlanFiles
    /\ files = << >>
    /\ heap = ZeroStats
    /\ oom = NoOom
    /\ listing = << >>
    /\ size \in 1 .. MaxPlanProcs
    /\ dist_mode \in {"block", "cyclic"}
    /\ comm_mode = "none"
    /\ ppc = [r \in Ranks |-> "plan"]
    /\ my_file_indices = [r \in Ranks |-> << >>]
    /\ my_count = [r \in Ranks |-> 0]
    /\ local_results = << >>
    /\ pi = << >>
    /\ all_counts = << >>
    /\ displacements = << >>
    /\ total_cities = 0
    /\ all_results = << >>
    /\ inflight = {}
    /\ arrival = << >>
    /\ cities = << >>
    /\ city_count = 0
    /\ NotPrinted
    /\ GpuIdle /\ OmpIdle /\ SerIdle

\* lines 305-324 at rank r
PlanRank(r) ==
    /\ backend = "plan" /\ ppc[r] = "plan"
    /\ my_file_indices' =
         [my_file_indices EXCEPT ![r] = MyFileIndices(dist_mode, r, num_files, size)]
    /\ my_count' = [my_count EXCEPT ![r] = Len(MyFileIndices(dist_mode, r, num_files, size))]
    /\ ppc' = [ppc EXCEPT ![r] = "planned"]
    /\ UNCHANGED notMpi
    /\ UNCHANGED <<dirVars, repVars, size, dist_mode, comm_mode, local_results, pi, all_counts,
                   displacements, total_cities, all_results, inflight, arrival, outVars>>

PlanNext == \E r \in Ranks : PlanRank(r)

SpecPlan == InitPlan /\ [][PlanNext]_vars

-----------------------------------------------------------------------------
(* The offsets of the result gather as a function of the count vector       *)

InitDispl ==
    /\ backend = "displ"
    /\ num_files = 0
    /\ files = << >>
    /\ heap = ZeroStats
    /\ oom = NoOom
    /\ listing = << >>
    /\ size \in 1 .. MaxSources
    /\ dist_mode = "none"
    /\ comm_mode = "none"
    /\ ppc = [r \in Ranks |-> "gather_root"]
    /\ my_file_indices = << >>
    /\ my_count = << >>
    /\ local_results = << >>
    /\ pi = << >>
    /\ all_counts \in [Ranks -> 0 .. MaxCount]
    /\ displacements = [r \in Ranks |-> -1]
    /\ total_cities = 0
    /\ all_results = << >>
    /\ inflight = {}
    /\ arrival = << >>
    /\ cities = << >>
    /\ city_count = 0
    /\ NotPrinted
    /\ GpuIdle /\ OmpIdle /\ SerIdle

\* lines 382-396 for a given count vector
DisplRoot ==
    /\ backend = "displ" /\ ppc[0] = "gather_root"
    /\ total_cities' = TotalCities(all_counts, size)
    /\ displacements' = [i \in Ranks |-> Displ(all_counts, i)]
    /\ ppc' = [ppc EXCEPT ![0] = "gatherv"]
    /\ UNCHANGED notMpi
    /\ UNCHANGED <<dirVars, repVars, size, dist_mode, comm_mode, my_file_indices, my_count,
                   local_results, pi, all_counts, all_results, inflight, arrival, outVars>>

DisplNext == DisplRoot

SpecDispl == InitDispl /\ [][DisplNext]_vars

-----------------------------------------------------------------------------
(* The combine step of the block-level reduction as a function of the       *)
(* accumulators it is given                                                 *)

\* the per-unit accumulator after the unit took records i .. Len(recs)
RECURSIVE ShFold(_, _, _)
ShFold(a, recs, i) ==
    IF i > Len(recs) THEN a ELSE ShFold(ShAccumulate(a, recs[i]), recs, i + 1)

\* the accumulators a unit can hold at the first __syncthreads
UnitAccumulators ==
    {ShFold(ShInit, ParseFile(f), 1) : f \in FileChoices(MaxUnitRecords)}

CombineOperands == {"a", "b", "c"}

InitCombine ==
    /\ backend = "combine"
    /\ gfile = File(FALSE, FALSE, 0, 0)
    /\ h_records = << >>
    /\ num_records = 0
    /\ num_blocks = 0
    /\ hpc = "off"
    /\ d_out = 0
    /\ \E a, b, c \in UnitAccumulators :
         sh = [x \in CombineOperands |-> IF x = "a" THEN a ELSE IF x = "b" THEN b ELSE c]
    /\ kpc = << >>
    /\ kidx = << >>
    /\ ks = << >>
    /\ reg = << >>
    /\ sh0 = << >>
    /\ sh_writers = << >>
    /\ taken = << >>
    /\ DirIdle /\ MpiIdle /\ OmpIdle /\ SerIdle
    /\ cities = << >>
    /\ city_count = 0
    /\ NotPrinted

\* lines 198-208 applied to the operands x and y, the result kept as dst
CombineInto(dst, x, y) ==
    /\ backend = "combine"
    /\ dst \notin DOMAIN sh /\ x \in DOMAIN sh /\ y \in DOMAIN sh
    /\ sh' = [k \in DOMAIN sh \cup {dst} |->
                IF k = dst THEN ShCombine(sh[x], sh[y]) ELSE sh[k]]
    /\ UNCHANGED notGpu
    /\ UNCHANGED <<gfile, h_records, num_records, num_blocks, hpc, d_out, kpc, kidx, ks,
                   reg, sh0, sh_writers, taken, outVars>>

\* lines 198-208 with the unit's initial accumulator as the partner
CombineWithInit(dst, x) ==
    /\ backend = "combine"
    /\ dst \notin DOMAIN sh /\ x \in DOMAIN sh
    /\ sh' = [k \in DOMAIN sh \cup {dst} |->
                IF k = dst THEN ShCombine(sh[x], ShInit) ELSE sh[k]]
    /\ UNCHANGED notGpu
    /\ UNCHANGED <<gfile, h_records, num_records, num_blocks, hpc, d_out, kpc, kidx, ks,
                   reg, sh0, sh_writers, taken, outVars>>

CombineNext ==
    \/ CombineInto("ab", "a", "b")
    \/ CombineInto("ba", "b", "a")
    \/ CombineInto("bc", "b", "c")
    \/ CombineInto("ab_c", "ab", "c")
    \/ CombineInto("a_bc", "a", "bc")
    \/ CombineWithInit("a_init", "a")

SpecCombine == InitCombine /\ [][CombineNext]_vars

\* the records of a file cut in two at any point: the two parts and the whole
InitSplit ==
    /\ backend = "combine"
    /\ gfile \in {File(TRUE, TRUE, off, n) : off \in 0 .. Len(Pool) - 1, n \in 0 .. MaxRecords}
    /\ \E k \in 0 .. gfile.n :
         h_records = [x \in {"left", "right", "whole"} |->
                        IF x = "left" THEN SubSeq(ParseFile(gfile), 1, k)
                        ELSE IF x = "right" THEN SubSeq(ParseFile(gfile), k + 1, gfile.n)
                        ELSE ParseFile(gfile)]
    /\ num_records = gfile.n
    /\ num_blocks = 0
    /\ hpc = "off"
    /\ d_out = 0
    /\ sh = << >>
    /\ kpc = << >>
    /\ kidx = << >>
    /\ ks = << >>
    /\ reg = << >>
    /\ sh0 = << >>
    /\ sh_writers = << >>
    /\ taken = << >>
    /\ DirIdle /\ MpiIdle /\ OmpIdle /\ SerIdle
    /\ cities = << >>
    /\ city_count = 0
    /\ NotPrinted

\* lines 157-191 run by one unit over the records h_records[x]
SplitFold(x) ==
    /\ backend = "combine"
    /\ x \in DOMAIN h_records /\ x \notin DOMAIN sh
    /\ sh' = [k \in DOMAIN sh \cup {x} |->
                IF k = x THEN ShFold(ShInit, h_records[x], 1) ELSE sh[k]]
    /\ UNCHANGED notGpu
    /\ UNCHANGED <<gfile, h_records, num_records, num_blocks, hpc, d_out, kpc, kidx, ks,
                   reg, sh0, sh_writers, taken, outVars>>

SpecSplit ==
    InitSplit /\ [][\/ SplitFold("left")
                    \/ SplitFold("right")
                    \/ SplitFold("whole")
                    \/ CombineInto("both", "left", "right")]_vars

\* the kernel, and its combine step on given accumulators
InitKernel == InitGpu \/ InitCombine

KernelNext == GpuNext \/ CombineNext

SpecKernel == InitKernel /\ [][KernelNext]_vars

FoldNext == SerialNext \/ GpuNext

SpecFold == InitFold /\ [][FoldNext]_vars

-----------------------------------------------------------------------------
(* A run of any of the three parallel programs *)

Init == InitGpu \/ InitOmp \/ InitMpi

Next == GpuNext \/ OmpNext \/ MpiNext

Spec == Init /\ [][Next]_vars

\* a run of any of the four programs
SpecBackends == (Init \/ InitSerial) /\ [][Next \/ SerialNext]_vars

-----------------------------------------------------------------------------
(* Runs in which the allocation of a result buffer fails                    *)

\* weather_analysis_omp.c line 281 does not test the pointer: the loop body
\* stores through local_cities = NULL (lines 287-288, 293-294, 299-300), which
\* is undefined; the store either faults and the process dies ...
OmpNullStoreFaults(t) ==
    /\ backend = "omp" /\ opc = "parallel" /\ tpc[t] = "work"
    /\ LocalCitiesNull
    /\ opc' = "crashed"
    /\ UNCHANGED notOmp
    /\ UNCHANGED <<dirVars, repVars, num_threads, schedule_type, chunk_size, local_cities,
                   omp_next, tpc, tcur, tend, tround, slot_writers, processed, outVars>>

\* ... or lands in whatever is mapped at that address and the loop goes on
OmpNullStoreLands(t) ==
    /\ backend = "omp" /\ opc = "parallel" /\ tpc[t] = "work"
    /\ LocalCitiesNull
    /\ slot_writers' = [slot_writers EXCEPT ![OmpSlot(tcur[t])] = @ \cup {t}]
    /\ processed' = [processed EXCEPT ![tcur[t]] = @ + 1]
    /\ tcur' = [tcur EXCEPT ![t] = @ + 1]
    /\ tpc' = [tpc EXCEPT ![t] = IF tcur[t] + 1 < tend[t] THEN "work" ELSE "idle"]
    /\ UNCHANGED notOmp
    /\ UNCHANGED <<dirVars, repVars, num_threads, schedule_type, chunk_size, local_cities, opc,
                   omp_next, tend, tround, outVars>>

\* lines 305-307 read through the null pointer: the read faults ...
OmpNullCopyFaults ==
    /\ backend = "omp" /\ opc = "copy"
    /\ LocalCitiesNull
    /\ opc' = "crashed"
    /\ UNCHANGED notOmp
    /\ UNCHANGED <<dirVars, repVars, num_threads, schedule_type, chunk_size, local_cities,
                   omp_next, tpc, tcur, tend, tround, slot_writers, processed, outVars>>

\* ... or yields the bytes found there, which lines 305-310 hand to print_results
OmpNullCopyReads ==
    /\ backend = "omp" /\ opc = "copy"
    /\ LocalCitiesNull
    /\ cities' = [i \in 0 .. num_files - 1 |-> heap]
    /\ city_count' = num_files
    /\ opc' = "print"
    /\ UNCHANGED notOmp
    /\ UNCHANGED <<dirVars, repVars, num_threads, schedule_type, chunk_size, local_cities,
                   omp_next, tpc, tcur, tend, tround, slot_writers, processed>>

\* part_001 lines 328-334: malloc of local_results fails at rank r, MPI_Abort
MpiLocalResultsAbort(r) ==
    /\ backend = "mpi" /\ ppc[r] = "plan"
    /\ LET mine == MyFileIndices(dist_mode, r, num_files, size)
       IN  /\ LocalResultsNull(r) /\ Len(mine) > 0
           /\ my_file_indices' = [my_file_indices EXCEPT ![r] = mine]
           /\ my_count' = [my_count EXCEPT ![r] = Len(mine)]
    /\ ppc' = [ppc EXCEPT ![r] = "aborted"]
    /\ UNCHANGED notMpi
    /\ UNCHANGED <<dirVars, repVars, size, dist_mode, comm_mode, local_results, pi, all_counts,
                   displacements, total_cities, all_results, inflight, arrival, outVars>>

\* part_001 lines 348-355: malloc of all_counts or displacements fails, MPI_Abort
MpiGatherArraysAbort ==
    /\ backend = "mpi" /\ ppc[0] = "gather"
    /\ oom.site = "gather_arrays"
    /\ ppc' = [ppc EXCEPT ![0] = "aborted"]
    /\ UNCHANGED notMpi
    /\ UNCHANGED <<dirVars, repVars, size, dist_mode, comm_mode, my_file_indices, my_count,
                   local_results, pi, all_counts, displacements, total_cities, all_results,
                   inflight, arrival, outVars>>

\* part_001 lines 382-390: malloc of all_results fails, MPI_Abort
MpiAllResultsAbort ==
    /\ backend = "mpi" /\ ppc[0] = "gather_root"
    /\ \A r \in Ranks : all_counts[r] >= 0
    /\ oom.site = "all_results"
    /\ total_cities' = TotalCities(all_counts, size)
    /\ ppc' = [ppc EXCEPT ![0] = "aborted"]
    /\ UNCHANGED notMpi
    /\ UNCHANGED <<dirVars, repVars, size, dist_mode, comm_mode, my_file_indices, my_count,
                   local_results, pi, all_counts, displacements, all_results,
                   inflight, arrival, outVars>>

\* MPI_Abort(MPI_COMM_WORLD, 1) terminates the other processes of the job,
\* each wherever it is at that moment
MpiKilled(r) ==
    /\ backend = "mpi"
    /\ \E q \in Ranks : ppc[q] = "aborted"
    /\ ppc[r] \notin {"aborted", "done"}
    /\ ppc' = [ppc EXCEPT ![r] = "aborted"]
    /\ UNCHANGED notMpi
    /\ UNCHANGED <<dirVars, repVars, size, dist_mode, comm_mode, my_file_indices, my_count,
                   local_results, pi, all_counts, displacements, total_cities, all_results,
                   inflight, arrival, outVars>>

InitOom == InitOmpWith(TRUE) \/ InitOmpWith(FALSE) \/ InitMpiWith(TRUE) \/ InitMpiWith(FALSE)

OomNext ==
    \/ OmpNext
    \/ MpiNext
    \/ \E t \in Threads : OmpNullStoreFaults(t)
    \/ \E t \in Threads : OmpNullStoreLands(t)
    \/ OmpNullCopyFaults
    \/ OmpNullCopyReads
    \/ \E r \in Ranks : MpiLocalResultsAbort(r)
    \/ MpiGatherArraysAbort
    \/ MpiAllResultsAbort
    \/ \E r \in Ranks : MpiKilled(r)

SpecOom == InitOom /\ [][OomNext]_vars

-----------------------------------------------------------------------------
(* Helpers of the properties *)

RECURSIVE SumUpTo(_, _)
\* f[0] + ... + f[n]
SumUpTo(f, n) == IF n < 0 THEN 0 ELSE f[n] + SumUpTo(f, n - 1)

MinOf(S) == CHOOSE x \in S : \A y \in S : x <= y
MaxOf(S) == CHOOSE x \in S : \A y \in S : x >= y

GpuRun == backend = "gpu"

\* the block-level reduction of block b is over
Reduced(b) == GpuRun /\ b \in Launched /\ ks[b] = 0

-----------------------------------------------------------------------------
(* Properties of the GPU kernel *)

\* C1: when two or more groups contribute to the entity, after the kernel the
\* global min is the minimum of all group minima and the global max is the
\* maximum of all group maxima, under every interleaving of the groups.
C1_GlobalExtremaOfAllGroups ==
    (GpuRun /\ hpc \in {"synced", "committed"} /\ num_blocks >= 2) =>
        /\ d_out.temp_min = MinOf({sh[b][0].temp_min : b \in Launched})
        /\ d_out.temp_max = MaxOf({sh[b][0].temp_max : b \in Launched})

\* C8: after the block-level reduction slot 0 of the group holds the
\* combination of all per-unit accumulators of the group: counts and sums are
\* the sums over all units, min / max the min / max over all units.
C8_Slot0HoldsGroup ==
    \A b \in Blocks : Reduced(b) =>
        /\ sh[b][0].temp_count =
               SumUpTo([t \in Tids |-> sh0[b][t].temp_count], BLOCK_SIZE - 1)
        /\ sh[b][0].precip_count =
               SumUpTo([t \in Tids |-> sh0[b][t].precip_count], BLOCK_SIZE - 1)
        /\ sh[b][0].temp_sum =
               SumUpTo([t \in Tids |-> sh0[b][t].temp_sum], BLOCK_SIZE - 1)
        /\ sh[b][0].precip_sum =
               SumUpTo([t \in Tids |-> sh0[b][t].precip_sum], BLOCK_SIZE - 1)
        /\ \A m \in Months :
               /\ sh[b][0].monthly_count[m] =
                      SumUpTo([t \in Tids |-> sh0[b][t].monthly_count[m]], BLOCK_SIZE - 1)
               /\ sh[b][0].monthly_temp[m] =
                      SumUpTo([t \in Tids |-> sh0[b][t].monthly_temp[m]], BLOCK_SIZE - 1)
        /\ sh[b][0].temp_min = MinOf({sh0[b][t].temp_min : t \in Tids})
        /\ sh[b][0].temp_max = MaxOf({sh0[b][t].temp_max : t \in Tids})

\* a group whose first and last unit both accumulated a temperature, with
\* different extrema, has finished its reduction
C8_Witness ==
    \E b \in Blocks :
        /\ Reduced(b)
        /\ sh0[b][0].temp_count > 0
        /\ sh0[b][BLOCK_SIZE - 1].temp_count > 0
        /\ sh0[b][0].temp_max < sh0[b][BLOCK_SIZE - 1].temp_max

\* C9: for one entity with n >= 1 records the committed result of the
\* record-level reduction has the count, precipitation count, bucket counts,
\* min, max and sums of the serial fold over the n records in original order,
\* under every interleaving of units and groups.  (Min and max are compared
\* when some record carries a temperature; with none the two folds hold
\* different sentinels, FLT_MAX and DBL_MAX.)
C9_RecordLevelEqualsSerialFold ==
    (GpuRun /\ hpc = "committed") =>
        LET ref == SerialFold(0, FileLines(gfile))
            c == cities[0]
        IN  /\ c.temp_count = ref.temp_count
            /\ c.precip_count = ref.precip_count
            /\ c.monthly_temp_count = ref.monthly_temp_count
            /\ ref.temp_count > 0 => c.temp_min = ref.temp_min /\ c.temp_max = ref.temp_max
            /\ c.temp_sum = ref.temp_sum
            /\ c.precip_sum = ref.precip_sum
            /\ c.monthly_temp_sum = ref.monthly_temp_sum

-----------------------------------------------------------------------------
(* Properties of the partition planner and of the result gather *)

PlanRun == backend = "plan"
AllPlanned == PlanRun /\ \A r \in Ranks : ppc[r] = "planned"

\* the indices rank r owns, and the ranks that own index i
Owned(r) == {my_file_indices[r][k] : k \in DOMAIN my_file_indices[r]}
Owners(i) == {r \in Ranks : i \in Owned(r)}

\* C2: for every N >= 0 and W >= 1 the block and the cyclic distribution each
\* partition [0,N): no rank owns an index outside [0,N), no index is owned
\* twice, and once every rank has planned every index has exactly one owner
\* and the my_count values add up to N.
C2_DistributionIsPartition ==
    PlanRun =>
        /\ \A r \in Ranks :
               /\ Owned(r) \subseteq 0 .. num_files - 1
               /\ Cardinality(Owned(r)) = Len(my_file_indices[r])
               /\ my_count[r] = Len(my_file_indices[r])
        /\ \A i \in 0 .. num_files - 1 : Cardinality(Owners(i)) <= 1
        /\ AllPlanned =>
               /\ \A i \in 0 .. num_files - 1 : Cardinality(Owners(i)) = 1
               /\ SumUpTo(my_count, size - 1) = num_files

\* block distribution of 5 items over 4 ranks, all planned: the last rank owns nothing
C2_Witness ==
    /\ AllPlanned /\ dist_mode = "block" /\ num_files = 5 /\ size = 4
    /\ my_count[2] = 1 /\ my_count[3] = 0

DisplRun == backend = "displ"
OffsetsDone == DisplRun /\ ppc[0] = "gatherv"

\* the slots of the collection source i occupies
SlotRange(i) == displacements[i] .. displacements[i] + all_counts[i] - 1

\* C7: for every count vector displacement[0] = 0 and displacement[i] is the sum
\* of counts[0..i-1]; the ranges [displacement[i], displacement[i] + counts[i])
\* are pairwise disjoint and cover exactly [0, total_cities); a source with
\* count 0 occupies no slot and leaves the next offset where it was; counts
\* [0,5,3,0] give offsets [0,0,5,8].
C7_OffsetsArePrefixSums ==
    OffsetsDone =>
        /\ displacements[0] = 0
        /\ \A i \in Ranks : displacements[i] = SumUpTo(all_counts, i - 1)
        /\ \A i, j \in Ranks : i # j => SlotRange(i) \cap SlotRange(j) = {}
        /\ UNION {SlotRange(i) : i \in Ranks} = 0 .. total_cities - 1
        /\ \A i \in Ranks : all_counts[i] = 0 =>
               /\ SlotRange(i) = {}
               /\ i + 1 \in Ranks => displacements[i + 1] = displacements[i]
        /\ (size = 4 /\ all_counts = (0 :> 0 @@ 1 :> 5 @@ 2 :> 3 @@ 3 :> 0)) =>
               displacements = (0 :> 0 @@ 1 :> 0 @@ 2 :> 5 @@ 3 :> 8)

\* the offsets of the count vector [0,5,3,0] have been computed
C7_Witness ==
    /\ OffsetsDone /\ size = 4
    /\ all_counts = (0 :> 0 @@ 1 :> 5 @@ 2 :> 3 @@ 3 :> 0)
    /\ total_cities = 8

MpiRun == backend = "mpi"

\* the sources whose contribution has been placed in the root's buffer
Placed == {arrival[k] : k \in DOMAIN arrival}

\* C6: the j-th local result of source s is placed at (sum of the counts of
\* the sources before s) + j, whatever the order in which the contributions
\* arrive: the collection depends only on the vector of per-source counts.
C6_PlacedAtOffsetNotArrival ==
    MpiRun =>
        \A s \in Placed : \A j \in 0 .. my_count[s] - 1 :
            all_results[SumUpTo(my_count, s - 1) + j] = local_results[s][j]

\* the gather is complete, the last of three sources arrived first and the
\* root last, and all three contributed items
C6_Witness ==
    /\ MpiRun /\ size = 3 /\ GatherComplete
    /\ arrival[1] = 2 /\ arrival[3] = 0
    /\ \A r \in Ranks : my_count[r] > 0

-----------------------------------------------------------------------------
(* Properties of the shared-memory loop *)

OmpRun == backend = "omp"

\* C3: under schedule(dynamic) every index of [0,N) is handed to exactly one
\* thread and processed exactly once: no two threads hold the same index, no
\* index is processed twice, and none is left when the loop has ended.
C3_DynamicExactlyOnce ==
    (OmpRun /\ schedule_type = "dynamic") =>
        /\ \A i \in 0 .. num_files - 1 : processed[i] <= 1
        /\ \A t, u \in Threads :
               (t # u /\ tpc[t] = "work" /\ tpc[u] = "work") =>
                   (tcur[t] .. tend[t] - 1) \cap (tcur[u] .. tend[u] - 1) = {}
        /\ opc # "parallel" => \A i \in 0 .. num_files - 1 : processed[i] = 1

\* a dynamic loop over three items has ended, and two threads processed items
C3_Witness ==
    /\ OmpRun /\ schedule_type = "dynamic" /\ opc = "copy" /\ num_files = 3
    /\ \E i, j \in 0 .. num_files - 1 : slot_writers[i] = {0} /\ slot_writers[j] = {1}

\* C4: every result slot and every per-unit accumulator has one writer:
\* local_cities[i] is written by one thread only, and it is written by none
\* but an iteration i; sh_*[tid] of a group is written during local
\* accumulation by unit tid only.
C4_SingleWriter ==
    /\ OmpRun => \A i \in 0 .. num_files - 1 :
                     /\ Cardinality(slot_writers[i]) <= 1
                     /\ slot_writers[i] # {} <=> processed[i] > 0
    /\ GpuRun => \A b \in Blocks : \A slot \in Tids : sh_writers[b][slot] \subseteq {slot}

\* two threads have written two different slots of local_cities and the
\* parallel loop is over
C4_Witness ==
    /\ OmpRun /\ opc = "copy" /\ num_threads = 2
    /\ \E i, j \in 0 .. num_files - 1 :
           i # j /\ slot_writers[i] = {0} /\ slot_writers[j] = {1}

-----------------------------------------------------------------------------
(* Properties of the final collection *)

\* the collection handed to the reporting code is complete
Collected == (OmpRun /\ opc = "print") \/ (MpiRun /\ ppc[0] = "done")

\* the slots of the final collection that carry entity i
SlotsOf(i) == {k \in DOMAIN cities : cities[k].name = i}

EmptyAccumulator(c) ==
    /\ c.temp_count = 0 /\ c.temp_sum = 0
    /\ c.temp_min = DBL_MAX /\ c.temp_max = -DBL_MAX
    /\ c.precip_count = 0 /\ c.precip_sum = 0
    /\ c.monthly_temp_count = ZeroMonths /\ c.monthly_temp_sum = ZeroMonths
    /\ c.record_count = 0

\* C5: a work item that cannot be opened has the empty accumulator in the
\* final collection (counts, sums and buckets 0, min / max at the sentinels,
\* total_records 0), and every other work item is processed and reported.
C5_UnreadableItemIsEmpty ==
    Collected =>
        \A i \in 0 .. num_files - 1 :
            \E k \in SlotsOf(i) :
                IF files[i].open_ok
                THEN cities[k] = SerialFold(i, FileLines(files[i]))
                ELSE EmptyAccumulator(cities[k])

\* what a run with one worker reports for work item i when malloc hands out h
OneWorkerResult(i, h) == process_city_file_omp(files[i], [h EXCEPT !.name = i])

\* C10: the final accumulator of every entity is the one any other run over
\* the same work items reports, whatever the partition policy, the worker
\* count and the schedule: it is the accumulator of the one-worker run.
C10_PartitionInvariance ==
    Collected =>
        \A i \in 0 .. num_files - 1 : \A h \in HeapChoices :
            \E k \in SlotsOf(i) : cities[k] = OneWorkerResult(i, h)

-----------------------------------------------------------------------------
(* Properties of the two distributions *)

\* the least k with k * w >= n
CeilDiv(n, w) == CHOOSE k \in 0 .. n : k * w >= n /\ (k = 0 \/ (k - 1) * w < n)

\* rank r has chosen its indices
HasPlanned(r) == (MpiRun \/ PlanRun) /\ ppc[r] # "plan"

Increasing(seq) == \A k \in 1 .. Len(seq) - 1 : seq[k] < seq[k + 1]

\* C11: under block distribution rank r owns exactly the indices
\* [r*ceil(N/W), min((r+1)*ceil(N/W), N)) in increasing order; a rank whose
\* start is >= N owns zero items (my_count = 0, never negative) and still
\* takes part in both gathers: its count reaches the root, its (empty)
\* contribution is placed before the root leaves the gather, and the run
\* stops only when every rank is done.
C11_BlockOwnership ==
    (MpiRun /\ dist_mode = "block") =>
        /\ \A r \in Ranks : HasPlanned(r) =>
               LET c == CeilDiv(num_files, size)
               IN  /\ Owned(r) = {i \in 0 .. num_files - 1 :
                                     r * c <= i /\ i < Min2((r + 1) * c, num_files)}
                   /\ Increasing(my_file_indices[r])
                   /\ my_count[r] = Cardinality(Owned(r))
                   /\ my_count[r] >= 0
                   /\ r * c >= num_files => my_count[r] = 0
        /\ ppc[0] \in {"gatherv", "gatherv_root", "wait", "reduce", "done"} =>
               \A r \in Ranks : all_counts[r] = my_count[r]
        /\ ppc[0] \in {"reduce", "done"} => Placed = Ranks
        /\ ~ENABLED MpiNext => \A r \in Ranks : ppc[r] = "done"

\* one item over three ranks under block distribution: ranks 1 and 2 start
\* at or past N, own nothing, and the run has completed
C11_Witness ==
    /\ MpiRun /\ dist_mode = "block" /\ num_files = 1 /\ size = 3
    /\ my_count = (0 :> 1 @@ 1 :> 0 @@ 2 :> 0)
    /\ \A r \in Ranks : ppc[r] = "done"

\* C12: under cyclic distribution rank r owns exactly the indices
\* r, r+W, r+2W, ... below N, in increasing order; the sequence is determined
\* by (r, N, W) alone.
C12_CyclicOwnership ==
    ((MpiRun \/ PlanRun) /\ dist_mode = "cyclic") =>
        \A r \in Ranks : HasPlanned(r) =>
            /\ Owned(r) = {i \in 0 .. num_files - 1 : i % size = r}
            /\ Increasing(my_file_indices[r])
            /\ Len(my_file_indices[r]) = Cardinality(Owned(r))
            /\ my_count[r] = Len(my_file_indices[r])
            /\ \A k \in 1 .. Len(my_file_indices[r]) :
                   my_file_indices[r][k] = r + (k - 1) * size

\* seven items over three ranks, cyclic: rank 0 owns 0, 3, 6
C12_Witness ==
    /\ PlanRun /\ dist_mode = "cyclic" /\ num_files = 7 /\ size = 3
    /\ my_file_indices[0] = <<0, 3, 6>>
    /\ my_file_indices[2] = <<2, 5>>

-----------------------------------------------------------------------------
(* Properties of the collection phases *)

\* C13: the sequential phase of the shared-memory program (copy into cities,
\* city_count, report) starts only when every thread has finished all its
\* iterations, so every slot has been written when it is read, and no thread
\* writes a slot once the sequential phase has started; for every schedule and
\* thread count.
C13_CollectAfterWorkers ==
    /\ [](OmpRun /\ opc # "parallel" =>
            /\ \A t \in Threads : tpc[t] = "done"
            /\ \A i \in 0 .. num_files - 1 : processed[i] >= 1 /\ slot_writers[i] # {})
    /\ [][(OmpRun /\ opc # "parallel") =>
            (local_cities' = local_cities /\ slot_writers' = slot_writers)]_vars
    /\ [](OmpRun /\ opc = "print" =>
            city_count = num_files /\ \A i \in 0 .. num_files - 1 : cities[i] = local_cities[i])

\* a guided loop over three items run by two threads that both wrote slots
\* has been collected
C13_Witness ==
    /\ OmpRun /\ opc = "print" /\ schedule_type = "guided" /\ num_files = 3
    /\ \E i, j \in 0 .. num_files - 1 : slot_writers[i] = {0} /\ slot_writers[j] = {1}

\* the collection the gather is to produce: item j of source s, sources in
\* rank order
GatherTarget ==
    [k \in 0 .. SumUpTo(my_count, size - 1) - 1 |->
        LET s == CHOOSE q \in Ranks : SumUpTo(my_count, q - 1) <= k
                                       /\ k < SumUpTo(my_count, q)
        IN  local_results[s][k - SumUpTo(my_count, s - 1)]]

\* C14: with comm_mode = nonblocking the root is past the wait only when the
\* gather is complete: nothing is in flight and every slot of all_results
\* holds the data of its source, so what print_results is given is the
\* collection the blocking gather gives for the same local results.
C14_ReadAfterWait ==
    MpiRun =>
        /\ (comm_mode = "nonblocking" /\ ppc[0] \in {"reduce", "done"}) =>
               /\ GatherComplete /\ inflight = {}
               /\ all_results = GatherTarget
        /\ (ppc[0] = "done" /\ ~printed) => (cities = GatherTarget /\ city_count = num_files)

\* a non-blocking gather from three ranks over three items was reported, and
\* the root's own contribution was not the first to be placed
C14_Witness ==
    /\ MpiRun /\ comm_mode = "nonblocking" /\ ppc[0] = "done"
    /\ size = 3 /\ num_files = 3 /\ arrival[1] # 0

-----------------------------------------------------------------------------
(* Properties of runs with a failing allocation *)

\* the malloc of local_results that fails is one the rank performs
\* (lines 328-329: only a rank with my_count > 0 allocates)
LocalResultsFailure ==
    /\ backend = "mpi" /\ oom.site = "local_results"
    /\ Len(MyFileIndices(dist_mode, oom.rank, num_files, size)) > 0

\* C15: when the allocation of local_cities, local_results, all_counts /
\* displacements or all_results fails, no worker writes a result through the
\* failed buffer, nothing is gathered and no collection is reported.
C15_AllocationFailureAborts ==
    /\ (backend = "omp" /\ LocalCitiesNull) =>
           /\ \A i \in 0 .. num_files - 1 : slot_writers[i] = {}
           /\ opc # "print" /\ city_count = 0
    /\ LocalResultsFailure =>
           /\ pi[oom.rank] = 0 /\ local_results[oom.rank] = << >>
           /\ ppc[oom.rank] \in {"plan", "aborted"}
    /\ (LocalResultsFailure \/ (backend = "mpi" /\ oom.site \in {"gather_arrays", "all_results"})) =>
           /\ ppc[0] \notin {"gatherv", "gatherv_root", "wait", "reduce", "done"}
           /\ arrival = << >> /\ all_results = << >>
           /\ cities = << >> /\ city_count = 0

-----------------------------------------------------------------------------
(* Properties of the combine step *)

CombineRun == backend = "combine"

\* C16: the pairwise combine of the block-level reduction is commutative and
\* associative: combine(a,b) = combine(b,a) and combine(combine(a,b),c) =
\* combine(a,combine(b,c)), on counts, min, max and buckets; the sums, exact
\* on the model's integer values, agree as well.
C16_CombineCommutesAssociates ==
    CombineRun =>
        /\ {"ab", "ba"} \subseteq DOMAIN sh => sh["ab"] = sh["ba"]
        /\ {"ab_c", "a_bc"} \subseteq DOMAIN sh => sh["ab_c"] = sh["a_bc"]

\* three accumulators with different minima and maxima were combined in
\* both orders and both groupings
C16_Witness ==
    /\ CombineRun
    /\ {"ab", "ba", "ab_c", "a_bc"} \subseteq DOMAIN sh
    /\ sh["a"].temp_count > 0 /\ sh["b"].temp_count > 0 /\ sh["c"].temp_count > 0
    /\ sh["a"].temp_min < sh["b"].temp_min /\ sh["c"].temp_max > sh["b"].temp_max
    /\ sh["a"].monthly_count # sh["b"].monthly_count

\* unit t of block b is assigned at least one record
HadRecords(b, t) == b * BLOCK_SIZE + t < num_records

\* the accumulators of the units 0 .. t of block b that were assigned
\* records, combined; unit 0 of a launched block always is assigned one
RECURSIVE CombineWorking(_, _)
CombineWorking(b, t) ==
    IF t = 0 THEN sh0[b][0]
    ELSE IF HadRecords(b, t) THEN ShCombine(CombineWorking(b, t - 1), sh0[b][t])
    ELSE CombineWorking(b, t - 1)

BlockWorking(b) == CombineWorking(b, BLOCK_SIZE - 1)

\* C17: the accumulator a unit starts with is an identity of combine:
\* combine(a, initial) = a for every accumulator a.  A unit that was assigned no
\* record holds the initial accumulator at the first barrier, and its taking
\* part changes nothing: slot 0 after the tournament is the combination of
\* the units that were assigned records, and the merged counts and sums (and
\* with one block, min and max) are those of the units that were assigned
\* records.
C17_InitialIsIdentity ==
    /\ (CombineRun /\ "a_init" \in DOMAIN sh) => sh["a_init"] = sh["a"]
    /\ GpuRun =>
           \A b \in Launched :
               /\ ks[b] >= 0 => \A t \in Tids : ~HadRecords(b, t) => sh0[b][t] = ShInit
               /\ Reduced(b) => sh[b][0] = BlockWorking(b)
    /\ (GpuRun /\ hpc \in {"synced", "committed"}) =>
           /\ d_out.temp_count =
                  SumUpTo([b \in Launched |-> BlockWorking(b).temp_count], num_blocks - 1)
           /\ d_out.temp_sum =
                  SumUpTo([b \in Launched |-> BlockWorking(b).temp_sum], num_blocks - 1)
           /\ d_out.precip_count =
                  SumUpTo([b \in Launched |-> BlockWorking(b).precip_count], num_blocks - 1)
           /\ d_out.precip_sum =
                  SumUpTo([b \in Launched |-> BlockWorking(b).precip_sum], num_blocks - 1)
           /\ \A m \in Months :
                  d_out.monthly_temp_count[m] =
                      SumUpTo([b \in Launched |-> BlockWorking(b).monthly_count[m]],
                              num_blocks - 1)
           /\ num_blocks = 1 =>
                  /\ d_out.temp_min = BlockWorking(0).temp_min
                  /\ d_out.temp_max = BlockWorking(0).temp_max

\* a kernel over one record with a temperature has finished: every unit but
\* the first of the only block was assigned no record
C17_Witness ==
    /\ GpuRun /\ hpc = "synced" /\ num_records = 1 /\ num_blocks = 1
    /\ d_out.temp_count = 1
    /\ \A t \in Tids \ {0} : sh0[0][t] = ShInit

-----------------------------------------------------------------------------
(* Properties of the local fold *)

SerialRun == backend = "serial"

\* the lines among the first n of L that carry a temperature / a precipitation
WithTemp(L, n) == {k \in 1 .. n : L[k].has_temp}
WithPrecip(L, n) == {k \in 1 .. n : L[k].has_precip}

RECURSIVE SumTemp(_, _)
SumTemp(L, n) ==
    IF n = 0 THEN 0 ELSE SumTemp(L, n - 1) + (IF L[n].has_temp THEN L[n].temp ELSE 0)

\* C18: the fold counts every record read in record_count, and counts a
\* record in temp_count, temp_sum, temp_min and temp_max only when its
\* temperature field is present: after n records record_count = n whatever
\* the records hold, temp_count is the number of records with a temperature,
\* and 3 records of which the 2nd lacks the temperature give record_count 3
\* and temp_count 2.  The record-level reduction reports the same counts.
C18_CountsOnlyPresentFields ==
    /\ (SerialRun /\ spc = "lines") =>
           LET L == FileLines(files[sfile])
               c == cities[city_count]
           IN  /\ c.record_count = sline
               /\ c.temp_count = Cardinality(WithTemp(L, sline))
               /\ c.precip_count = Cardinality(WithPrecip(L, sline))
               /\ c.temp_sum = SumTemp(L, sline)
               /\ c.temp_count > 0 =>
                      /\ c.temp_min = MinOf({L[k].temp : k \in WithTemp(L, sline)})
                      /\ c.temp_max = MaxOf({L[k].temp : k \in WithTemp(L, sline)})
               /\ c.temp_count = 0 => (c.temp_min = DBL_MAX /\ c.temp_max = -DBL_MAX)
               /\ (sline = 3 /\ WithTemp(L, 3) = {1, 3}) =>
                      (c.record_count = 3 /\ c.temp_count = 2)
    /\ (GpuRun /\ hpc = "committed") =>
           LET L == FileLines(gfile)
               c == cities[0]
           IN  /\ c.record_count = Len(L)
               /\ c.temp_count = Cardinality(WithTemp(L, Len(L)))
               /\ c.precip_count = Cardinality(WithPrecip(L, Len(L)))
               /\ c.temp_sum = SumTemp(L, Len(L))

\* the serial fold has read three records of which the 2nd lacks the
\* temperature
C18_Witness ==
    /\ SerialRun /\ spc = "lines" /\ sline = 3
    /\ WithTemp(FileLines(files[sfile]), 3) = {1, 3}
    /\ cities[city_count].record_count = 3 /\ cities[city_count].temp_count = 2

\* the lines among the first n of L that carry a temperature and whose date
\* yields month index m
InBucket(L, n, m) == {k \in WithTemp(L, n) : L[k].date_ok /\ L[k].mm - 1 = m}

RECURSIVE SumOver(_, _)
\* the sum of the temperatures of the lines K of L
SumOver(L, K) ==
    IF K = {} THEN 0 ELSE LET k == CHOOSE x \in K : TRUE IN L[k].temp + SumOver(L, K \ {k})

\* every bucket array has the elements 0 .. 11 and no other
BucketsInBounds(sum, count) == DOMAIN sum = Months /\ DOMAIN count = Months

\* C19: a record whose month index is outside [0,11] or whose date cannot be
\* parsed changes no bucket sum and no bucket count, and still counts in the
\* top-level count, sum, min and max when it has a temperature: bucket m
\* holds exactly the records with a temperature whose date yields m, while
\* temp_count holds all records with a temperature; no element outside
\* 0 .. 11 of a bucket array is written.
C19_OutOfRangeMonthSkipsBuckets ==
    /\ SerialRun =>
           \A i \in DOMAIN cities :
               BucketsInBounds(cities[i].monthly_temp_sum, cities[i].monthly_temp_count)
    /\ (SerialRun /\ spc = "lines") =>
           LET L == FileLines(files[sfile])
               c == cities[city_count]
           IN  /\ \A m \in Months :
                      /\ c.monthly_temp_count[m] = Cardinality(InBucket(L, sline, m))
                      /\ c.monthly_temp_sum[m] = SumOver(L, InBucket(L, sline, m))
               /\ c.temp_count = Cardinality(WithTemp(L, sline))
               /\ c.temp_sum = SumOver(L, WithTemp(L, sline))
               /\ c.temp_count > 0 =>
                      /\ c.temp_min = MinOf({L[k].temp : k \in WithTemp(L, sline)})
                      /\ c.temp_max = MaxOf({L[k].temp : k \in WithTemp(L, sline)})
    /\ GpuRun =>
           /\ \A b \in Blocks : \A t \in Tids :
                  BucketsInBounds(sh[b][t].monthly_temp, sh[b][t].monthly_count)
           /\ BucketsInBounds(d_out.monthly_temp_sum, d_out.monthly_temp_count)
    /\ (GpuRun /\ hpc = "committed") =>
           LET L == FileLines(gfile)
               c == cities[0]
           IN  /\ \A m \in Months :
                      /\ c.monthly_temp_count[m] = Cardinality(InBucket(L, Len(L), m))
                      /\ c.monthly_temp_sum[m] = SumOver(L, InBucket(L, Len(L), m))
               /\ c.temp_count = Cardinality(WithTemp(L, Len(L)))
               /\ c.temp_sum = SumOver(L, WithTemp(L, Len(L)))

\* the serial fold has taken records with a temperature whose date yields
\* month index 12, and whose date is too short to hold a month
C19_Witness ==
    /\ SerialRun /\ spc = "lines"
    /\ LET L == FileLines(files[sfile])
       IN  /\ \E k \in WithTemp(L, sline) : L[k].date_ok /\ L[k].mm = 13
           /\ \E k \in WithTemp(L, sline) : ~L[k].date_ok
           /\ \E m \in Months : cities[city_count].monthly_temp_count[m] > 0

\* min <= max once something was counted, the sentinels before
WellFormed(count, min, max, sentinels) ==
    /\ count > 0 => min <= max
    /\ count = 0 => (min \in sentinels /\ max \in {-x : x \in sentinels})

\* C20: every accumulator, in every state between two of its updates (during
\* the local fold, after each tournament step, after the cross-group merge),
\* has min <= max when count > 0 and holds the sentinels when count = 0.  (The
\* serial accumulators hold DBL_MAX, the per-unit accumulators FLT_MAX; for
\* the merged result either sentinel is accepted.)
C20_MinMaxWellFormed ==
    /\ SerialRun =>
           \A i \in 0 .. num_files - 1 :
               (i < city_count \/ (i = city_count /\ spc = "lines")) =>
                   WellFormed(cities[i].temp_count, cities[i].temp_min,
                              cities[i].temp_max, {DBL_MAX})
    /\ GpuRun =>
           \A b \in Launched : \A t \in Tids :
               kpc[b][t] \notin {"off", "init"} =>
                   WellFormed(sh[b][t].temp_count, sh[b][t].temp_min,
                              sh[b][t].temp_max, {FLT_MAX})
    /\ (GpuRun /\ hpc \in {"synced", "committed"}) =>
           WellFormed(d_out.temp_count, d_out.temp_min, d_out.temp_max,
                      {FLT_MAX, DBL_MAX})
    /\ (GpuRun /\ hpc = "committed") =>
           WellFormed(cities[0].temp_count, cities[0].temp_min, cities[0].temp_max,
                      {FLT_MAX, DBL_MAX})

\* the sum of the 12 elements of a bucket array
SumBuckets(arr) == SumUpTo(arr, 11)

-----------------------------------------------------------------------------
(* Properties of print_results *)

\* the number of data lines read from the work items 0 .. n - 1
RECURSIVE RecordsRead(_)
RecordsRead(n) == IF n <= 0 THEN 0 ELSE RecordsRead(n - 1) + Len(FileLines(files[n - 1]))

\* the work items the program has handled when it calls print_results
Handled == IF backend = "serial" THEN sfile + 1 ELSE num_files

\* the table as it was handed to print_results, before the sorts
RECURSIVE SerialTable(_)
SerialTable(n) ==
    IF n <= 0 THEN << >>
    ELSE IF files[n - 1].open_ok /\ files[n - 1].header
         THEN Append(SerialTable(n - 1), SerialFold(n - 1, FileLines(files[n - 1])))
         ELSE SerialTable(n - 1)

Unsorted ==
    IF backend = "serial"
    THEN [i \in 0 .. Len(SerialTable(Handled)) - 1 |-> SerialTable(Handled)[i + 1]]
    ELSE all_results

\* C22: the totals print_results reports are the sums over the entities of
\* the final table (total_records of record_count, global_temp_count of
\* temp_count, global_temp_sum of temp_sum), they are the sums over the
\* table as it was before the two in-place sorts, and total_records is the
\* number of records read across all work items.
C22_TotalsAreReductions ==
    ((SerialRun \/ MpiRun) /\ printed) =>
        /\ total_records = TotalRecords(cities, city_count)
        /\ global_temp_count = GlobalTempCount(cities, city_count)
        /\ global_temp_sum = GlobalTempSum(cities, city_count)
        /\ total_records = TotalRecords(Unsorted, city_count)
        /\ global_temp_count = GlobalTempCount(Unsorted, city_count)
        /\ global_temp_sum = GlobalTempSum(Unsorted, city_count)
        /\ total_records = RecordsRead(Handled)

-----------------------------------------------------------------------------
(* Equivalence of the four programs *)

\* the work items the run was given: the GPU routine is given one file, the
\* serial program stops enumerating at max_cities entities
WorkItems ==
    IF GpuRun THEN [i \in 0 .. 0 |-> gfile]
    ELSE [i \in 0 .. Handled - 1 |-> files[i]]

\* what an entity is compared by
View(c) ==
    [name |-> c.name, record_count |-> c.record_count, temp_count |-> c.temp_count,
     temp_min |-> c.temp_min, temp_max |-> c.temp_max,
     monthly_temp_count |-> c.monthly_temp_count]

\* the entities the serial program collects for the work items F: one for
\* every file that opens and has a header line
SerialEntities(F) ==
    {View(SerialFold(i, FileLines(F[i]))) :
        i \in {k \in DOMAIN F : F[k].open_ok /\ F[k].header}}

\* the program has its final collection and has not yet sorted it
Collection ==
    /\ ~printed
    /\ \/ GpuRun /\ hpc \in {"returned", "committed"}
       \/ OmpRun /\ opc = "print"
       \/ MpiRun /\ ppc[0] = "done"
       \/ SerialRun /\ spc = "print"

\* C23: for the same work items each of the four programs ends with the
\* collection the serial program ends with, as a set: the same entities, the
\* same number of entities, and per entity the same record count, count,
\* minimum, maximum and bucket counts, also when a work item is unreadable or
\* has a header and no record.
C23_BackendsAgree ==
    Collection =>
        /\ {View(cities[i]) : i \in 0 .. city_count - 1} = SerialEntities(WorkItems)
        /\ city_count = Cardinality(SerialEntities(WorkItems))

-----------------------------------------------------------------------------
(* The steps of the block-level reduction *)

\* the sum of f over the finite set K
RECURSIVE SumSet(_, _)
SumSet(f, K) ==
    IF K = {} THEN 0 ELSE LET k == CHOOSE x \in K : TRUE IN f[k] + SumSet(f, K \ {k})

\* the units whose accumulators slot t holds once the steps down to stride m
\* are done
Covered(t, m) == {u \in Tids : u % m = t}

\* slot t of block b holds the combination of the accumulators the units U
\* had at the first barrier
SlotHolds(b, t, U) ==
    /\ sh[b][t].temp_count = SumSet([u \in Tids |-> sh0[b][u].temp_count], U)
    /\ sh[b][t].temp_sum = SumSet([u \in Tids |-> sh0[b][u].temp_sum], U)
    /\ sh[b][t].precip_count = SumSet([u \in Tids |-> sh0[b][u].precip_count], U)
    /\ sh[b][t].temp_min = MinOf({sh0[b][u].temp_min : u \in U})
    /\ sh[b][t].temp_max = MaxOf({sh0[b][u].temp_max : u \in U})

\* every slot that is read or written at stride s holds what the steps its
\* owner has finished make of it: a unit that has done the step of stride s
\* at t < s covers the units congruent to t modulo s, every other such slot
\* what the step before left
StepsInOrder ==
    \A b \in Blocks : (GpuRun /\ b \in Launched /\ ks[b] > 0) =>
        \A t \in Tids : t < 2 * ks[b] =>
            IF kpc[b][t] = "sync" /\ t < ks[b]
            THEN SlotHolds(b, t, Covered(t, ks[b]))
            ELSE SlotHolds(b, t, Covered(t, 2 * ks[b]))

\* the step of unit t at stride s = ks[b]
StepIsolated(b, t) ==
    /\ \A u \in Tids : kpc[b][u] \in {"red", "sync"}
    /\ \A c \in Blocks \ {b} : sh'[c] = sh[c]
    /\ \A u \in Tids \ {t} : sh'[b][u] = sh[b][u]
    /\ t >= ks[b] => sh'[b][t] = sh[b][t]
    /\ t < ks[b] =>
           /\ Partner(t, ks[b]) \in Tids
           /\ Partner(t, ks[b]) >= ks[b]
           /\ sh'[b][t] = ShCombine(sh[b][t], sh[b][t + ks[b]])

\* C24: the steps of the block-level reduction are separated by the
\* group-wide barrier: while a unit does the step of stride s every unit of
\* the group is in that step or at the barrier after it; a unit tid < s
\* writes only slot tid and reads only the slots tid and tid + s, a unit
\* tid >= s writes nothing, so the slot tid + s a unit reads is written by
\* no unit in that step; and every slot read in a step holds what its writer
\* left when it finished the step before.
C24_StepsSeparatedByBarrier ==
    /\ []StepsInOrder
    /\ [][\A b \in Blocks : \A t \in Tids : KReduce(b, t) => StepIsolated(b, t)]_vars

\* unit 0 has done the second step of a group in which unit 1 has done the
\* first one with a temperature of its own and one taken from unit 3
C24_Witness ==
    \E b \in Blocks :
        /\ GpuRun /\ b \in Launched /\ ks[b] = 1 /\ kpc[b][0] = "sync"
        /\ sh0[b][1].temp_count > 0 /\ sh0[b][3].temp_count > 0
        /\ sh[b][0].temp_count >= 3

-----------------------------------------------------------------------------
(* The cross-group merge of the counts and sums *)

\* the groups whose unit 0 is past line 215, past lines 218-220, past lines 222-225
PastSum ==
    {b \in Launched : kpc[b][0] \in {"m_min_rd", "m_min_wr", "m_max_rd", "m_max_wr",
                                     "m_count", "m_monthly", "done"}}
PastCounts == {b \in Launched : kpc[b][0] \in {"m_monthly", "done"}}
PastMonthly == {b \in Launched : kpc[b][0] = "done"}

\* C25: whatever the number of groups and the interleaving of their merges,
\* no atomic add is lost: in every state of the kernel the global count, the
\* global precipitation count and each of the 12 global bucket counts are the
\* sums of the values of the groups that have added theirs, and so are the
\* global sums (which are exact here, so the order of the adds cannot show);
\* after the kernel they are the sums over all groups.
C25_AtomicAddsLoseNothing ==
    (GpuRun /\ hpc \in {"running", "synced", "committed"}) =>
        /\ d_out.temp_count = SumSet([b \in Launched |-> sh[b][0].temp_count], PastCounts)
        /\ d_out.precip_count = SumSet([b \in Launched |-> sh[b][0].precip_count], PastCounts)
        /\ d_out.precip_sum = SumSet([b \in Launched |-> sh[b][0].precip_sum], PastCounts)
        /\ d_out.temp_sum = SumSet([b \in Launched |-> sh[b][0].temp_sum], PastSum)
        /\ \A m \in Months :
               /\ d_out.monthly_temp_count[m] =
                      SumSet([b \in Launched |-> sh[b][0].monthly_count[m]], PastMonthly)
               /\ d_out.monthly_temp_sum[m] =
                      SumSet([b \in Launched |-> sh[b][0].monthly_temp[m]], PastMonthly)
        /\ hpc \in {"synced", "committed"} =>
               PastSum = Launched /\ PastCounts = Launched /\ PastMonthly = Launched

\* the kernel is over for two groups that both added a temperature count
\* and a bucket count, one of them a precipitation count as well
C25_Witness ==
    /\ GpuRun /\ hpc = "synced" /\ num_blocks = 2
    /\ d_out.precip_count > 0
    /\ \A b \in Launched :
           /\ sh[b][0].temp_count > 0
           /\ \E m \in Months : sh[b][0].monthly_count[m] > 0

-----------------------------------------------------------------------------
(* The grid-stride loop *)

\* the units that have read records[i], with the number of times
Takers(i) == {e \in DOMAIN taken : e[1] = i}

\* every launched unit is past its grid-stride loop
LoopsDone ==
    /\ GpuRun /\ hpc \in {"running", "synced", "committed"}
    /\ \A b \in Launched : \A t \in Tids : kpc[b][t] \notin {"init", "acc"}

\* C26: for num_records >= 1 the launch has min(ceil(num_records /
\* BLOCK_SIZE), cap) groups, and the grid-stride loop gives every record
\* index in 0 .. num_records - 1 to exactly one unit and no index beyond: no
\* record is read twice or by two units, no index >= num_records is read,
\* and once the loops are over every index has been read once.  When the cap
\* binds, the records beyond the first pass are read by units of the same
\* groups, which read a record before.
C26_GridStrideExactlyOnce ==
    (GpuRun /\ hpc \in {"running", "synced", "committed"}) =>
        /\ num_records >= 1
        /\ num_blocks = Min2(CeilDiv(num_records, BLOCK_SIZE), MaxBlocks)
        /\ \A e \in DOMAIN taken :
               /\ e[1] \in 0 .. num_records - 1
               /\ e[2] \in Launched /\ e[3] \in Tids
               /\ taken[e] = 1
               /\ e[1] >= BLOCK_SIZE * num_blocks =>
                      <<e[1] - BLOCK_SIZE * num_blocks, e[2], e[3]>> \in DOMAIN taken
        /\ \A i \in 0 .. num_records - 1 : Cardinality(Takers(i)) <= 1
        /\ LoopsDone => \A i \in 0 .. num_records - 1 : Cardinality(Takers(i)) = 1

\* the cap binds: the loops over 9 records are done and unit 0 of group 0
\* has read the records 0 and 8
C26_Witness ==
    /\ LoopsDone /\ num_records = 9 /\ num_blocks = MaxBlocks
    /\ <<0, 0, 0>> \in DOMAIN taken
    /\ <<8, 0, 0>> \in DOMAIN taken

-----------------------------------------------------------------------------
(* The fold as a homomorphism *)

SplitRun == CombineRun /\ DOMAIN h_records = {"left", "right", "whole"}

\* C27: the fold is a homomorphism for combine: for a sequence of records
\* cut in two at any point, the combination of the folds of the two parts
\* is the fold of the whole sequence, field by field (count, sum, min, max,
\* precipitation count and sum, bucket counts and sums); and it has the
\* count, sum, precipitation count and bucket counts of the serial fold of
\* the sequence, and its min and max when some record has a temperature.
C27_FoldIsHomomorphism ==
    (SplitRun /\ {"both", "whole"} \subseteq DOMAIN sh) =>
        /\ sh["both"] = sh["whole"]
        /\ LET ref == SerialFold(0, FileLines(gfile))
           IN  /\ sh["both"].temp_count = ref.temp_count
               /\ sh["both"].temp_sum = ref.temp_sum
               /\ sh["both"].precip_count = ref.precip_count
               /\ sh["both"].monthly_count = ref.monthly_temp_count
               /\ ref.temp_count > 0 =>
                      /\ sh["both"].temp_min = ref.temp_min
                      /\ sh["both"].temp_max = ref.temp_max

\* three temperatures cut into one and two, the minimum in the right part
\* and the maximum in the left one
C27_Witness ==
    /\ SplitRun /\ {"both", "whole"} \subseteq DOMAIN sh
    /\ sh["left"].temp_count = 1 /\ sh["right"].temp_count = 2
    /\ sh["both"].temp_count = 3
    /\ sh["right"].temp_min < sh["left"].temp_min
    /\ sh["right"].temp_max < sh["left"].temp_max

-----------------------------------------------------------------------------
(* Frame of the precipitation step *)

\* the fields of an accumulator other than the precipitation ones
Primary(c) == [f \in DOMAIN c \ {"precip_sum", "precip_count"} |-> c[f]]

\* accumulator c becomes d by a record whose precipitation is present or not
\* (present, value v) and whose temperature is present or not (has_temp, temp)
RecordFrame(c, d, present, v, has_temp, temp) ==
    /\ (d.precip_count # c.precip_count) <=> present
    /\ (d.precip_sum # c.precip_sum) <=> (present /\ v # 0)
    /\ present => (d.precip_count = c.precip_count + 1 /\ d.precip_sum = c.precip_sum + v)
    /\ has_temp => (d.temp_count = c.temp_count + 1 /\ d.temp_sum = c.temp_sum + temp)
    /\ ~has_temp =>
           \A f \in DOMAIN Primary(c) \ {"record_count"} : Primary(d)[f] = Primary(c)[f]

\* C28: a record changes precip_sum and precip_count if and only if its
\* precipitation field is present, whether or not its temperature is present
\* and its bucket key valid; and the precipitation step leaves the primary
\* fields and the buckets alone: a record without temperature changes none
\* of them even when it has a precipitation, a record with a temperature
\* changes them by the temperature alone.  In the serial fold and in the
\* accumulation loop of the kernel.
C28_PrecipitationFrame ==
    /\ [][SerialRecord =>
             LET rec == FileLines(files[sfile])[sline + 1]
             IN  RecordFrame(cities[city_count], cities'[city_count],
                             rec.has_precip, rec.precip, rec.has_temp, rec.temp)]_vars
    /\ [][\A b \in Blocks : \A t \in Tids : KAccumulate(b, t) =>
             LET rec == h_records[kidx[b][t] + 1]
             IN  RecordFrame(sh[b][t], sh'[b][t], rec.valid_precip, rec.precipitation,
                             rec.valid_temp, rec.avg_temp)]_vars

\* the serial fold has read a record with a temperature and no precipitation
\* and then one with a precipitation and no temperature
C28_Witness ==
    /\ SerialRun /\ spc = "lines" /\ sline = 2
    /\ LET L == FileLines(files[sfile])
       IN  /\ L[1].has_temp /\ ~L[1].has_precip
           /\ ~L[2].has_temp /\ L[2].has_precip
    /\ cities[city_count].temp_count = 1 /\ cities[city_count].precip_count = 1

-----------------------------------------------------------------------------
(* Barriers and termination of the kernel *)

\* the barriers a unit at position pc of a block with stride s has passed
\* are those its block has passed: none before the first barrier, all
\* 1 + LogBlockSize of them once it is in the merge or done
PhaseAgrees(pc, s) ==
    /\ pc \in {"init", "acc"} => s = -1
    /\ pc = "red" => s > 0
    /\ pc \notin {"off", "init", "acc", "red", "sync"} => s = 0

\* C29: every unit of a group executes the same number of barriers, one
\* after the accumulation loop and one per step of the block-level
\* reduction, whatever the number of records it was given, zero included: a
\* unit is never in a phase other than the one the barriers its group has
\* passed allow, and a unit without record goes to the first barrier.  No
\* unit passes a barrier before every unit of its group has arrived, and
\* all leave it together.  The kernel terminates for every num_records and
\* every number of groups: a launched kernel leads to the state in which
\* every unit is done, so no unit waits at a barrier for ever.
C29_BarriersAndTermination ==
    /\ [](GpuRun => \A b \in Launched : \A t \in Tids : PhaseAgrees(kpc[b][t], ks[b]))
    /\ [][\A b \in Blocks : SyncThreads(b) =>
             /\ \A t \in Tids : kpc[b][t] = "sync"
             /\ \A t \in Tids : kpc'[b][t] # "sync"]_vars
    /\ (GpuRun /\ hpc = "running") ~> (hpc = "synced" /\ KernelDone)

\* a kernel of two groups has terminated in which the last unit of the
\* second group was given no record
C29_Witness ==
    /\ GpuRun /\ hpc = "synced" /\ KernelDone /\ num_blocks = 2
    /\ ~HadRecords(1, BLOCK_SIZE - 1)
    /\ ks[1] = 0

-----------------------------------------------------------------------------
(* Progress of the distributed program *)

\* every process has ended and the root has reported
AllEnded == MpiRun /\ printed /\ \A r \in Ranks : ppc[r] = "done"

\* C30: without allocation failure every process, also one without work
\* item, finishes its local loop before it enters the gather of the counts,
\* and enters the gather of the results after that; both collectives
\* complete; the root then holds the results of all N work items, each
\* placed from its source, and reports N of them; and every process
\* terminates.
C30_EveryProcessGathersAndEnds ==
    /\ [][\A r \in Ranks : MpiGatherCount(r) => pi[r] = my_count[r]]_vars
    /\ [][\A r \in Ranks : (MpiGatherv(r) \/ MpiIgatherv(r)) =>
             /\ all_counts[r] = my_count[r]
             /\ r = 0 => \A q \in Ranks : all_counts[q] = my_count[q]]_vars
    /\ [](AllEnded =>
             /\ GatherComplete /\ inflight = {}
             /\ all_results = GatherTarget
             /\ total_cities = num_files /\ city_count = num_files
             /\ DOMAIN cities = 0 .. num_files - 1)
    /\ MpiRun ~> AllEnded

\* three processes over one work item: two of them had none; all have ended
\* and the root reported one result
C30_Witness ==
    /\ AllEnded /\ size = 3 /\ num_files = 1
    /\ my_count[0] + my_count[1] + my_count[2] = 1
    /\ city_count = 1

-----------------------------------------------------------------------------
(* Order of the collection of the shared-memory program *)

\* C31: in the shared-memory program, once the parallel loop and the copy are
\* over, slot i of cities holds the name of work item i and the accumulator
\* the loop body leaves for work item i, for every i in [0, num_files), and
\* city_count = num_files; for every schedule, chunk size, thread count and
\* interleaving.
C31_CollectionInEnumerationOrder ==
    (OmpRun /\ opc = "print") =>
        /\ city_count = num_files
        /\ DOMAIN cities = 0 .. num_files - 1
        /\ \A i \in 0 .. num_files - 1 :
               /\ cities[i].name = i
               /\ cities[i] = OmpBody(i, heap)

\* three items were dealt statically one by one to two threads, both wrote
\* slots, and the collection holds an item with records in the middle slot
C31_Witness ==
    /\ OmpRun /\ opc = "print" /\ num_files = 3
    /\ schedule_type = "static" /\ chunk_size = 1 /\ num_threads = 2
    /\ slot_writers[0] = {0} /\ slot_writers[1] = {1} /\ slot_writers[2] = {0}
    /\ cities[1].name = 1 /\ cities[1].record_count > 0

-----------------------------------------------------------------------------
(* Order of the collection of the distributed program *)

\* the positions of the gathered collection that carry work item i
PositionsOf(i) == {k \in DOMAIN all_results : all_results[k].name = i}

\* C32: in the distributed program the collection gathered at the root holds
\* every enumerated work item exactly once: total_cities = num_files and the
\* names are a permutation of the enumeration. Under block distribution
\* position k holds work item k; under cyclic distribution position
\* displacements[r] + j holds work item r + j * size.
C32_GatheredOnceInPlace ==
    (MpiRun /\ ppc[0] \in {"reduce", "done"}) =>
        /\ total_cities = num_files
        /\ DOMAIN all_results = 0 .. num_files - 1
        /\ \A i \in 0 .. num_files - 1 : Cardinality(PositionsOf(i)) = 1
        /\ dist_mode = "block" =>
               \A k \in 0 .. num_files - 1 : all_results[k].name = k
        /\ dist_mode = "cyclic" =>
               \A r \in Ranks : \A j \in 0 .. my_count[r] - 1 :
                   all_results[displacements[r] + j].name = r + j * size

\* three items dealt cyclically to two ranks have been gathered: the
\* collection holds the items in the order 0, 2, 1
C32_Witness ==
    /\ MpiRun /\ ppc[0] = "reduce" /\ dist_mode = "cyclic"
    /\ size = 2 /\ num_files = 3
    /\ all_results[0].name = 0 /\ all_results[1].name = 2 /\ all_results[2].name = 1

-----------------------------------------------------------------------------
(* The work-item lists of the processes of the distributed program *)

\* the processes that reduced file i
Reducers(i) ==
    {r \in Ranks : \E j \in 0 .. my_count[r] - 1 : local_results[r][j].name = i}

\* C33: every process of the distributed program enumerates the directory
\* itself, and whatever order each process obtains, the partition by index is
\* a partition of the files: once the collection is gathered every file has
\* been reduced by exactly one process and appears exactly once in the
\* gathered collection.
C33_PartitionOfEntities ==
    (MpiRun /\ ppc[0] \in {"reduce", "done"}) =>
        \A i \in 0 .. num_files - 1 :
            /\ Cardinality(Reducers(i)) = 1
            /\ Cardinality(PositionsOf(i)) = 1

-----------------------------------------------------------------------------
(* Capacities of the static tables *)

\* C34: whatever max_cities is given and however many .csv files the
\* directory holds, the static tables are never written past their capacity:
\* num_files <= MAX_FILES when file_paths / city_names have been filled, the
\* slot cities[city_count] that is being written lies inside cities[], and
\* city_count <= MAX_CITIES; in the serial, shared-memory and GPU programs.
C34_WithinCapacity ==
    /\ SerialRun =>
           /\ city_count <= MAX_CITIES
           /\ spc = "lines" => city_count < MAX_CITIES
    /\ OmpRun => (num_files <= MAX_FILES /\ city_count <= MAX_CITIES)
    /\ GpuRun => city_count <= MAX_CITIES

-----------------------------------------------------------------------------
(* The bound on the records parsed from one file *)

RECURSIVE SumPrecip(_, _)
SumPrecip(L, n) ==
    IF n = 0 THEN 0 ELSE SumPrecip(L, n - 1) + (IF L[n].has_precip THEN L[n].precip ELSE 0)

\* C35: the GPU program parses at most MAX_RECORDS_PER_FILE records of a
\* file: for a file with L data lines num_records and the reported
\* record_count are min(L, MAX_RECORDS_PER_FILE), no element of h_records
\* past the capacity is written, and the lines past the bound count in no
\* count, sum or bucket of the result.
C35_RecordCap ==
    GpuRun =>
        LET L == FileLines(gfile)
            n == Min2(Len(L), MAX_RECORDS_PER_FILE)
            c == cities[0]
        IN  /\ DOMAIN h_records \subseteq 1 .. MAX_RECORDS_PER_FILE
            /\ hpc # "start" =>
                   /\ num_records = n
                   /\ h_records = [i \in 1 .. n |-> ParseRecord(L[i])]
            /\ hpc = "committed" =>
                   /\ c.record_count = n
                   /\ c.temp_count = Cardinality(WithTemp(L, n))
                   /\ c.precip_count = Cardinality(WithPrecip(L, n))
                   /\ c.temp_sum = SumTemp(L, n)
                   /\ c.precip_sum = SumPrecip(L, n)
                   /\ \A m \in Months :
                          c.monthly_temp_count[m] =
                              Cardinality({k \in WithTemp(L, n) : get_month(L[k]) = m})

\* a file with one line more than h_records holds has been reduced and
\* committed with record_count at the capacity
C35_Witness ==
    /\ GpuRun /\ hpc = "committed"
    /\ Len(FileLines(gfile)) = MAX_RECORDS_PER_FILE + 1
    /\ FileLines(gfile)[MAX_RECORDS_PER_FILE + 1].has_temp
    /\ cities[0].record_count = MAX_RECORDS_PER_FILE

-----------------------------------------------------------------------------
(* Order of initialisation, synchronisation and copy-back on the host *)

\* no group has started to merge into the global accumulator
NoMergeYet ==
    \A b \in Launched : kpc[b][0] \in {"init", "acc", "sync", "red", "m_sum"}

\* every unit of every launched group has left the kernel
AllUnitsDone == \A b \in Launched : \A t \in Tids : kpc[b][t] = "done"

\* the global accumulator holds the sums of slot 0 of all groups
FullyMerged(c) ==
    /\ c.temp_count = SumUpTo([b \in Launched |-> sh[b][0].temp_count], num_blocks - 1)
    /\ c.temp_sum = SumUpTo([b \in Launched |-> sh[b][0].temp_sum], num_blocks - 1)
    /\ c.precip_count = SumUpTo([b \in Launched |-> sh[b][0].precip_count], num_blocks - 1)
    /\ c.precip_sum = SumUpTo([b \in Launched |-> sh[b][0].precip_sum], num_blocks - 1)

\* C36: in the GPU program the global accumulator is set to the identity
\* (sums and counts 0, min at +sentinel, max at -sentinel, buckets 0) before
\* the kernel runs and is changed by the running kernel only; the host is
\* past cudaDeviceSynchronize, and copies back, only when every group has
\* completed; city_count is incremented only together with the copy-back, so
\* a committed slot holds the fully merged accumulator.
C36_InitSyncCommit ==
    /\ [](GpuRun /\ hpc = "running" /\ NoMergeYet =>
            /\ d_out = DeviceInit
            /\ d_out.temp_sum = 0 /\ d_out.temp_count = 0
            /\ d_out.temp_min = DBL_MAX /\ d_out.temp_max = -DBL_MAX
            /\ d_out.monthly_temp_count = ZeroMonths)
    /\ [][GpuRun /\ d_out' # d_out => hpc' = "running"]_vars
    /\ [](GpuRun /\ hpc \in {"synced", "committed"} => AllUnitsDone)
    /\ [][GpuRun /\ cities' # cities =>
            /\ hpc = "synced" /\ AllUnitsDone /\ d_out' = d_out
            /\ city_count' = city_count + 1]_vars
    /\ [][GpuRun /\ city_count' # city_count =>
            /\ hpc = "synced" /\ hpc' = "committed"
            /\ cities'[city_count].temp_count = d_out.temp_count
            /\ cities'[city_count].temp_min = d_out.temp_min]_vars
    /\ [](GpuRun /\ city_count > 0 =>
            /\ hpc = "committed"
            /\ FullyMerged(cities[0])
            /\ cities[0].monthly_temp_count = d_out.monthly_temp_count
            /\ cities[0].record_count = num_records)

\* the result of a kernel of two groups that both merged temperatures has
\* been committed
C36_Witness ==
    /\ GpuRun /\ hpc = "committed" /\ city_count = 1 /\ num_blocks = 2
    /\ sh[0][0].temp_count > 0 /\ sh[1][0].temp_count > 0
    /\ cities[0].temp_count = sh[0][0].temp_count + sh[1][0].temp_count

-----------------------------------------------------------------------------
(* The local fold of the distributed program against the serial fold *)

\* C37: the local fold of the distributed program, whose get_month maps an
\* out-of-range month to -1, and the local fold of the serial and
\* shared-memory programs, whose get_month returns the raw value that is
\* range-checked where the buckets are written, produce the same accumulator
\* (counts, sums, min, max, buckets) for every record sequence and every date:
\* after each record of a serial run the accumulator is the one the
\* distributed fold gives for the records read so far, and the two
\* process_city_file routines agree on every file of the directory.
C37_ClampedFoldEqualsRawFold ==
    SerialRun =>
        /\ spc = "lines" =>
               cities[city_count] =
                   FoldFromMpi(InitStats(sfile), SubSeq(FileLines(files[sfile]), 1, sline), 1)
        /\ \A i \in DOMAIN files :
               process_city_file_omp(files[i], InitStats(i)) =
                   process_city_file_mpi(files[i], InitStats(i))

\* the serial fold has just folded a record with a temperature whose date
\* gives month index 12, after one whose date gives month index 11
C37_Witness ==
    /\ SerialRun /\ spc = "lines" /\ sline >= 3
    /\ LET L == FileLines(files[sfile])
       IN  /\ L[sline].has_temp /\ L[sline].date_ok /\ L[sline].mm = 13
           /\ L[sline - 2].has_temp /\ L[sline - 2].date_ok /\ L[sline - 2].mm = 12
    /\ cities[city_count].temp_count >= 2

-----------------------------------------------------------------------------
(* The counts of an accumulator *)

\* temp_count and precip_count lie between 0 and the number of records
CountsBelowRecords(tc, pc, rc) == 0 <= tc /\ tc <= rc /\ 0 <= pc /\ pc <= rc

\* no count of accumulator d is below the count of accumulator c
CountsGrow(c, d) == d.temp_count >= c.temp_count /\ d.precip_count >= c.precip_count

-----------------------------------------------------------------------------
(* The two sorts of print_results *)

\* the first n entries of d are the first n entries of c in some order
PermutationOf(c, d, n) ==
    \A k \in 0 .. n - 1 :
        /\ Cardinality({i \in 0 .. n - 1 : d[i] = c[k]}) =
               Cardinality({i \in 0 .. n - 1 : c[i] = c[k]})
        /\ \E i \in 0 .. n - 1 : c[i] = d[k]

\* the entries of the table past the first n are where they were
RestKept(c, d, n) == DOMAIN d = DOMAIN c /\ \A k \in DOMAIN c : k >= n => d[k] = c[k]

\* print_results is about to be called
ToBePrinted ==
    /\ ~printed
    /\ \/ SerialRun /\ spc = "print"
       \/ MpiRun /\ ppc[0] = "done"

\* C39: the two in-place exchange sorts of print_results only swap whole
\* entries: the table after the sort by average temperature is a permutation
\* of the table print_results was given, the table after the sort by
\* precipitation is a permutation of that, and so is the table print_results
\* leaves; after the first sort the entries are in non-increasing order of
\* average temperature, an entity with temp_count = 0 ranking as -999.
C39_SortsPermute ==
    /\ ToBePrinted =>
           LET hottest == SortBy(cities, city_count, "avg")
               wettest == SortBy(hottest, city_count, "precip")
           IN  /\ PermutationOf(cities, hottest, city_count)
               /\ PermutationOf(hottest, wettest, city_count)
               /\ RestKept(cities, hottest, city_count)
               /\ RestKept(hottest, wettest, city_count)
               /\ \A k \in 0 .. city_count - 2 : ~AvgAbove(hottest[k + 1], hottest[k])
               /\ \A k \in 0 .. city_count - 1 :
                      hottest[k].temp_count = 0 =>
                          \A i \in k + 1 .. city_count - 1 :
                              \/ hottest[i].temp_count = 0
                              \/ hottest[i].temp_sum <= -999 * hottest[i].temp_count
    /\ ((SerialRun \/ MpiRun) /\ printed) =>
           /\ PermutationOf(Unsorted, cities, city_count)
           /\ \A k \in 0 .. city_count - 2 : cities[k + 1].precip_sum <= cities[k].precip_sum

\* print_results has sorted a table of three entities whose first entity had
\* no temperature and whose second had one: the sort by average put the
\* second entity first
C39_Witness ==
    /\ SerialRun /\ printed /\ city_count = 3
    /\ Unsorted[0].temp_count = 0 /\ Unsorted[1].temp_count > 0
    /\ SortBy(Unsorted, city_count, "avg")[0] = Unsorted[1]
    /\ \E k \in 0 .. 2 : cities[k] # Unsorted[k]

====
